---------------------------- MODULE Spec2Model ----------------------------
(***************************************************************************)
(* Farm-management back end: farmer registration (farms/services.py),      *)
(* plot validation and crop-type validation (farms/serializers.py), the    *)
(* farm admin form (farms/forms.py), the industry-filtered admins          *)
(* (users/admin.py, farms/admin.py), the outbound sync client              *)
(* (farms/services.py) and the phone-number token serializer               *)
(* (users/serializers.py).                                                 *)
(*                                                                         *)
(* Python values: a dict is a function from its keys (strings) to values,  *)
(* so d.get(k, default) is Get(d, k, default) and a missing key is a key   *)
(* outside DOMAIN d.  None in a dict-valued position is the record None.   *)
(* A phone number is a sequence of one-character strings; None in a        *)
(* string position is NoneS.  A foreign key is the id of the row, 0 for    *)
(* NULL.                                                                   *)
(***************************************************************************)
EXTENDS Integers, Sequences, FiniteSets, TLC

VARIABLES
    db,     \* the database: roles, users, plots, farms, irrigations
    last,   \* the last call made: operation, input, outcome
    http    \* the HTTP requests sent to the companion service, in order

vars == <<db, last, http>>

-----------------------------------------------------------------------------
(* Bounds of the model *)

MaxEntries == 2     \* plot entries in one registration payload
MaxApiPlots == 2    \* plots created through the API in one run
MaxRequests == 3    \* HTTP requests recorded in one run

-----------------------------------------------------------------------------
(* Python values *)

None == [none |-> TRUE]
EmptyDict == [k \in {} |-> TRUE]
NoneS == <<"<None>">>
NoneStr == "None"

Get(d, k, default) == IF k \in DOMAIN d THEN d[k] ELSE default
IsNone(v) == DOMAIN v = {"none"}
\* bool(v) for a dict or None
Truthy(v) == ~IsNone(v) /\ DOMAIN v # {}
\* s is not None
NotNoneStr(s) == s # NoneS
\* bool(s) for a string or None
TruthyStr(s) == s # NoneS /\ s # <<>>
\* bool(s) for a name or None
TruthyName(s) == s # NoneStr /\ s # ""

DigitChars == {"0", "1", "2", "3", "4", "5", "6", "7", "8", "9"}

RECURSIVE StripNonDigits(_)
\* re.sub(r'\D', '', s)
StripNonDigits(s) ==
    IF s = <<>> THEN <<>>
    ELSE (IF Head(s) \in DigitChars THEN <<Head(s)>> ELSE <<>>)
         \o StripNonDigits(Tail(s))

RECURSIVE LStrip(_)
LStrip(s) == IF s # <<>> /\ Head(s) = " " THEN LStrip(Tail(s)) ELSE s

RECURSIVE RStrip(_)
RStrip(s) ==
    IF s # <<>> /\ s[Len(s)] = " " THEN RStrip(SubSeq(s, 1, Len(s) - 1)) ELSE s

\* str.strip()
Strip(s) == RStrip(LStrip(s))

\* cleaned_phone.startswith('91') -> cleaned_phone[2:], whatever the length
DropLeading91(c) ==
    IF Len(c) >= 2 /\ c[1] = "9" /\ c[2] = "1" THEN SubSeq(c, 3, Len(c)) ELSE c

\* cleaned_phone.startswith('91') and len(cleaned_phone) == 12 -> cleaned_phone[2:]
DropCountryCode(c) ==
    IF Len(c) = 12 /\ c[1] = "9" /\ c[2] = "1" THEN SubSeq(c, 3, 12) ELSE c

-----------------------------------------------------------------------------
(* users/models.py: Role, User *)

NoExc == "none"

\* A password
Pw == <<"p", "w">>

\* Role.objects.get_or_create(id=1, defaults={'name': 'farmer', ...});
\* Role.name is unique, so the create raises when another row holds the name
RoleGetOrCreate(d) ==
    IF \E r \in d.roles : r.id = 1
    THEN [db |-> d, exc |-> NoExc, role |-> 1]
    ELSE IF \E r \in d.roles : r.name = "farmer"
    THEN [db |-> d, exc |-> "IntegrityError", role |-> 0]
    ELSE [db |-> [d EXCEPT !.roles = @ \cup {[id |-> 1, name |-> "farmer"]}],
          exc |-> NoExc, role |-> 1]

\* The first two statements of User.clean and of User.save: blank -> None,
\* else digits only without the country code
PhoneBlankToNone(p) ==
    IF p = NoneS \/ p = <<>> \/ Strip(p) = <<>> THEN NoneS ELSE p

\* User.clean: [phone, exc]
UserClean(p) ==
    LET p1 == PhoneBlankToNone(p)
    IN IF ~TruthyStr(p1) THEN [phone |-> p1, exc |-> NoExc]
       ELSE LET cleaned_phone == DropCountryCode(StripNonDigits(p1))
            IN IF Len(cleaned_phone) # 10
               THEN [phone |-> p1, exc |-> "ValidationError"]
               ELSE [phone |-> cleaned_phone, exc |-> NoExc]

\* phone_number is unique=True (NULLs do not collide)
PhoneTaken(d, p) ==
    p # NoneS /\ \E i \in 1..Len(d.users) : d.users[i].phone_number = p

\* User.save(update_fields=None) of a new row: normalise, full_clean (clean
\* and the unique check), insert.  [db, exc, id]
UserSaveNew(d, u) ==
    LET p1 == PhoneBlankToNone(u.phone_number)
        p2 == IF TruthyStr(p1) THEN DropCountryCode(StripNonDigits(p1)) ELSE p1
        c == UserClean(p2)
        id == Len(d.users) + 1
    IN IF c.exc # NoExc THEN [db |-> d, exc |-> c.exc, id |-> 0]
       ELSE IF PhoneTaken(d, c.phone)
       THEN [db |-> d, exc |-> "ValidationError", id |-> 0]
       ELSE [db |-> [d EXCEPT !.users =
                        Append(@, [u EXCEPT !.id = id, !.phone_number = c.phone])],
             exc |-> NoExc, id |-> id]


\* User.objects.create_user(phone_number=..., role=farmer_role, ...): builds
\* the row and calls User.save().  The remaining farmer fields (names, email,
\* address) are taken to pass field validation.
CreateUser(d, phone_number, role) ==
    UserSaveNew(d, [id |-> 0, phone_number |-> phone_number, role |-> role,
                    password |-> Pw, is_active |-> TRUE, industry |-> 0,
                    created_by |-> 0])

-----------------------------------------------------------------------------
(* farms/services.py: CompleteFarmerRegistrationService.create_all *)

\* lines 229-241: the "plots" list, else the single-plot keys wrapped in a list
EffectivePlots(data) ==
    LET plots_data == Get(data, "plots", <<>>)
    IN IF plots_data # <<>> THEN plots_data
       ELSE LET single_plot == Get(data, "plot", None)
                single_farm == Get(data, "farm", None)
                single_irrigation == Get(data, "irrigation", None)
            IN IF Truthy(single_plot)
               THEN << [plot |-> single_plot,
                        farm |-> IF Truthy(single_farm) THEN single_farm ELSE EmptyDict,
                        irrigation |-> single_irrigation] >>
               ELSE <<>>

\* JSON values of a payload where their type matters to the code: the value
\* under the name of its type
JNull == [null |-> TRUE]
JNum(n) == [num |-> n]
JStr(s) == [str |-> s]
JList(items) == [list |-> items]
JDict(d) == [dict |-> d]

\* type(j) and the value
JType(j) == CHOOSE t \in DOMAIN j : TRUE
JVal(j) == j[JType(j)]

\* bool(j)
JTruthy(j) ==
    CASE JType(j) = "null" -> FALSE
      [] JType(j) = "num" -> j.num # 0
      [] JType(j) = "str" -> j.str # ""
      [] JType(j) = "list" -> Len(j.list) # 0
      [] JType(j) = "dict" -> DOMAIN j.dict # {}

\* The strings float() reads as a number
NumericStrings == ("0" :> 0) @@ ("1" :> 1) @@ ("2" :> 2)

\* float(j): [exc, v]
Float(j) ==
    CASE JType(j) = "num" -> [exc |-> NoExc, v |-> j.num]
      [] JType(j) = "str" -> IF j.str \in DOMAIN NumericStrings
                             THEN [exc |-> NoExc, v |-> NumericStrings[j.str]]
                             ELSE [exc |-> "ValueError", v |-> 0]
      [] OTHER -> [exc |-> "TypeError", v |-> 0]

\* d.get(k, default) on a JSON dict
JGet(j, k, default) == IF k \in DOMAIN j.dict THEN j.dict[k] ELSE default

\* Point(float(lon), float(lat)) / one tuple of polygon_coords: [exc, v]
FloatPair(x, y) ==
    LET fx == Float(x)
        fy == Float(y)
    IN IF fx.exc # NoExc THEN [exc |-> fx.exc, v |-> << >>]
       ELSE IF fy.exc # NoExc THEN [exc |-> fy.exc, v |-> << >>]
       ELSE [exc |-> NoExc, v |-> <<fx.v, fy.v>>]

\* coord.get("lon") if coord.get("lon") is not None else coord.get("lng", 0.0)
LonOf(coord) ==
    IF JGet(coord, "lon", JNull) # JNull THEN coord.dict["lon"]
    ELSE JGet(coord, "lng", JNum(0))

\* location / boundary None
NoGeometry == << >>

\* The center point, lines 264-268: [exc, v]
ParseLocation(plot_data) ==
    IF "location" \notin DOMAIN plot_data \/ ~JTruthy(plot_data["location"])
    THEN [exc |-> NoExc, v |-> NoGeometry]
    ELSE LET loc == plot_data["location"]
         IN IF JType(loc) # "dict" THEN [exc |-> "AttributeError", v |-> NoGeometry]
            ELSE FloatPair(LonOf(loc), JGet(loc, "lat", JNum(0)))

\* The coordinate list of the boundary data, lines 282-292: [exc, coords],
\* coords JNull for None
BoundaryCoords(boundary_data) ==
    IF JType(boundary_data) = "dict" /\ "coordinates" \in DOMAIN boundary_data.dict
    THEN LET coords == boundary_data.dict["coordinates"]
         IN IF ~JTruthy(coords) THEN [exc |-> NoExc, coords |-> coords]
            \* coords[0]
            ELSE IF JType(coords) = "num" THEN [exc |-> "TypeError", coords |-> JNull]
            ELSE IF JType(coords) = "dict" THEN [exc |-> "KeyError", coords |-> JNull]
            ELSE IF JType(coords) = "list" /\ JType(coords.list[1]) = "list"
                    /\ Len(coords.list[1].list) > 0
                    /\ JType(coords.list[1].list[1]) = "list"
            THEN [exc |-> NoExc, coords |-> coords.list[1]]
            ELSE [exc |-> NoExc, coords |-> coords]
    ELSE IF JType(boundary_data) = "list" THEN [exc |-> NoExc, coords |-> boundary_data]
    ELSE [exc |-> NoExc, coords |-> JNull]

RECURSIVE PolygonCoords(_)
\* for coord in coords, lines 297-305, over the items of a list: [exc, v]
PolygonCoords(items) ==
    IF Len(items) = 0 THEN [exc |-> NoExc, v |-> << >>]
    ELSE LET coord == Head(items)
             point == IF JType(coord) = "dict"
                      THEN FloatPair(LonOf(coord), JGet(coord, "lat", JNum(0)))
                      ELSE IF JType(coord) = "list" /\ Len(coord.list) >= 2
                      THEN FloatPair(coord.list[1], coord.list[2])
                      ELSE [exc |-> NoExc, v |-> << >>]
         IN IF point.exc # NoExc THEN point
            ELSE LET rest == PolygonCoords(Tail(items))
                 IN IF rest.exc # NoExc THEN rest
                    ELSE [exc |-> NoExc,
                          v |-> (IF point.v = << >> THEN << >> ELSE <<point.v>>)
                                \o rest.v]

\* The ring left open: polygon_coords as parsed
KeepRing(polygon_coords) == polygon_coords

\* Ensure polygon is closed, lines 310-311
CloseRing(polygon_coords) ==
    IF polygon_coords # << >>
       /\ polygon_coords[1] # polygon_coords[Len(polygon_coords)]
    THEN Append(polygon_coords, polygon_coords[1])
    ELSE polygon_coords

\* Polygon(polygon_coords): GEOS takes a linear ring of at least 4 points whose
\* first and last points are equal, and raises on anything else
Polygon(polygon_coords) ==
    IF Len(polygon_coords) >= 4 /\ polygon_coords[1] = polygon_coords[Len(polygon_coords)]
    THEN [exc |-> NoExc, v |-> polygon_coords]
    ELSE [exc |-> "GEOSException", v |-> NoGeometry]

\* The boundary of a plot entry, lines 272-324: [exc, v], v the stored ring or
\* NoGeometry
ParseBoundary(plot_data) ==
    IF "boundary" \notin DOMAIN plot_data \/ ~JTruthy(plot_data["boundary"])
    THEN [exc |-> NoExc, v |-> NoGeometry]
    ELSE LET c == BoundaryCoords(plot_data["boundary"])
         IN IF c.exc # NoExc THEN [exc |-> c.exc, v |-> NoGeometry]
            ELSE IF ~JTruthy(c.coords) THEN [exc |-> NoExc, v |-> NoGeometry]
            ELSE LET parsed == IF JType(c.coords) = "list" THEN PolygonCoords(c.coords.list)
                               \* the characters of a string are no coordinates
                               ELSE [exc |-> NoExc, v |-> << >>]
                 IN IF parsed.exc # NoExc THEN [exc |-> parsed.exc, v |-> NoGeometry]
                    ELSE LET polygon_coords == CloseRing(parsed.v)
                         IN IF Len(polygon_coords) >= 4
                            THEN \* try: Polygon(...) except Exception: log
                                 [exc |-> NoExc, v |-> Polygon(polygon_coords).v]
                            ELSE [exc |-> NoExc, v |-> NoGeometry]

\* Plot.objects.create with created_by=farmer
PlotCreateByFarmer(d, plot_data, location, boundary, farmer, created_by) ==
    [d EXCEPT !.plots = Append(@,
        [id |-> Len(d.plots) + 1,
         gat_number |-> Get(plot_data, "gat_number", NoneStr),
         plot_number |-> Get(plot_data, "plot_number", NoneStr),
         village |-> Get(plot_data, "village", NoneStr),
         taluka |-> Get(plot_data, "taluka", NoneStr),
         district |-> Get(plot_data, "district", NoneStr),
         location |-> location,
         boundary |-> boundary,
         farmer |-> farmer,
         created_by |-> farmer])]

\* Plot.objects.create(...), lines 328-341
PlotCreate(d, plot_data, location, boundary, farmer, created_by) ==
    [d EXCEPT !.plots = Append(@,
        [id |-> Len(d.plots) + 1,
         gat_number |-> Get(plot_data, "gat_number", NoneStr),
         plot_number |-> Get(plot_data, "plot_number", NoneStr),
         village |-> Get(plot_data, "village", NoneStr),
         taluka |-> Get(plot_data, "taluka", NoneStr),
         district |-> Get(plot_data, "district", NoneStr),
         location |-> location,
         boundary |-> boundary,
         farmer |-> farmer,
         created_by |-> created_by])]

\* Farm.objects.create(...), lines 413-438
FarmCreate(d, farm_data, plot, farmer, created_by) ==
    [d EXCEPT !.farms = Append(@,
        [id |-> Len(d.farms) + 1,
         farm_owner |-> farmer,
         created_by |-> created_by,
         plot |-> plot,
         address |-> LET a == Get(farm_data, "address", NoneStr)
                     IN IF a = NoneStr THEN "" ELSE a])]

\* FarmIrrigation.objects.create(...), lines 460-471
IrrigationCreate(d, irrigation_data, farm) ==
    [d EXCEPT !.irrigations = Append(@,
        [id |-> Len(d.irrigations) + 1,
         farm |-> farm,
         status |-> Get(irrigation_data, "status", TRUE)])]

\* The element of a one-element set; Only({e(x) : x \in {v}}) is e(v) with v
\* evaluated once
Only(S) == CHOOSE x \in S : TRUE

\* One turn of the loop of lines 248-472: [db, exc, acc]
ProcessEntry(d, plot_entry, farmer, created_by, acc) ==
    LET plot_data == Get(plot_entry, "plot", EmptyDict)
        farm_data == Get(plot_entry, "farm", EmptyDict)
        irrigation_data == Get(plot_entry, "irrigation", None)
    IN IF IsNone(plot_data)
       THEN \* 'boundary' in plot_data, line 255
            [db |-> d, exc |-> "TypeError", acc |-> acc]
       ELSE Only({
            IF location.exc # NoExc
            THEN [db |-> d, exc |-> location.exc, acc |-> acc]
            ELSE IF boundary.exc # NoExc
            THEN [db |-> d, exc |-> boundary.exc, acc |-> acc]
            ELSE Only({
                 LET plot == Len(d1.plots)
                     acc1 == [acc EXCEPT !.plots = Append(@, plot)]
                 IN IF IsNone(farm_data)
                    THEN \* farm_data.get("soil_type"), line 357
                         [db |-> d1, exc |-> "AttributeError", acc |-> acc1]
                    ELSE Only({
                         LET farm == Len(d2.farms)
                             acc2 == [acc1 EXCEPT !.farms = Append(@, farm)]
                         IN IF Truthy(irrigation_data)
                            THEN Only({[db |-> d3, exc |-> NoExc,
                                        acc |-> [acc2 EXCEPT !.irrigations =
                                                    Append(@, Len(d3.irrigations))]] :
                                       d3 \in {IrrigationCreate(d2, irrigation_data, farm)}})
                            ELSE [db |-> d2, exc |-> NoExc, acc |-> acc2] :
                         d2 \in {FarmCreate(d1, farm_data, plot, farmer, created_by)}}) :
                 d1 \in {PlotCreate(d, plot_data, location.v, boundary.v, farmer,
                                    created_by)}}) :
            location \in {ParseLocation(plot_data)},
            boundary \in {ParseBoundary(plot_data)}})

RECURSIVE ProcessEntries(_, _, _, _, _)
\* for plot_entry in plots_data, lines 248-472
ProcessEntries(d, plots_data, farmer, created_by, acc) ==
    IF plots_data = <<>> THEN [db |-> d, exc |-> NoExc, acc |-> acc]
    ELSE Only({IF r.exc # NoExc THEN r
               ELSE ProcessEntries(r.db, Tail(plots_data), farmer, created_by, r.acc) :
               r \in {ProcessEntry(d, Head(plots_data), farmer, created_by, acc)}})

NoResult == [farmer |-> 0]

First(s) == IF s # <<>> THEN s[1] ELSE 0

\* The returned dict, lines 475-484
ResultDict(farmer, acc) ==
    [farmer |-> farmer,
     plots |-> acc.plots,
     farms |-> acc.farms,
     irrigations |-> acc.irrigations,
     plot |-> First(acc.plots),
     farm |-> First(acc.farms),
     irrigation |-> First(acc.irrigations)]

\* The body of create_all, lines 199-484, on the transaction's view of the
\* database: [db, exc, result]
CreateAllBody(d, data, created_by) ==
    LET farmer_data == Get(data, "farmer", EmptyDict)
        phone_number == Get(farmer_data, "phone_number", NoneS)
    IN Only({
       IF r1.exc # NoExc
       THEN [db |-> r1.db, exc |-> r1.exc, result |-> NoResult]
       ELSE IF ~TruthyStr(phone_number)
       THEN [db |-> r1.db, exc |-> "ValueError", result |-> NoResult]
       ELSE Only({
            IF r2.exc # NoExc
            THEN [db |-> r2.db, exc |-> r2.exc, result |-> NoResult]
            ELSE Only({
                 IF r3.exc # NoExc
                 THEN [db |-> r3.db, exc |-> r3.exc, result |-> NoResult]
                 ELSE [db |-> r3.db, exc |-> NoExc, result |-> ResultDict(r2.id, r3.acc)] :
                 r3 \in {ProcessEntries(r2.db, EffectivePlots(data), r2.id, created_by,
                                        [plots |-> <<>>, farms |-> <<>>,
                                         irrigations |-> <<>>])}}) :
            r2 \in {CreateUser(r1.db, Strip(phone_number), r1.role)}}) :
       r1 \in {RoleGetOrCreate(d)}})

\* create_all without @transaction.atomic: every write is committed at once
TransactionAutocommit(before, r) == r.db

\* @transaction.atomic, line 172: the body's writes are committed when it
\* returns and rolled back when it raises
TransactionAtomic(before, r) == IF r.exc # NoExc THEN before ELSE r.db

\* create_all as the caller sees it: [db, exc, result]
CreateAll(d, data, created_by) ==
    Only({[db |-> TransactionAtomic(d, r), exc |-> r.exc, result |-> r.result] :
          r \in {CreateAllBody(d, data, created_by)}})

\* Rows of every table, to tell what a call wrote
RowCount(d) ==
    Cardinality(d.roles) + Len(d.users) + Len(d.plots) + Len(d.farms)
    + Len(d.irrigations)

-----------------------------------------------------------------------------
(* Registration: the database the calls start from and the payloads *)

FarmerRole == [id |-> 1, name |-> "farmer"]
AllRoles ==
    {FarmerRole, [id |-> 2, name |-> "fieldofficer"],
     [id |-> 3, name |-> "manager"], [id |-> 4, name |-> "owner"]}

PhoneOfficer == <<"9", "0", "0", "0", "0", "0", "0", "0", "0", "1">>
PhoneA == <<"9", "8", "7", "6", "5", "4", "3", "2", "1", "0">>
PhoneA91 == <<"+", "9", "1", " ">> \o PhoneA
PhoneShort == <<"9", "8", "7", "6", "5">>

\* The field officer who registers farmers
Officer ==
    [id |-> 1, phone_number |-> PhoneOfficer, role |-> 2, password |-> Pw,
     is_active |-> TRUE, industry |-> 0, created_by |-> 0]

SeedDb(roles) ==
    [roles |-> roles, users |-> <<Officer>>, plots |-> <<>>, farms |-> <<>>,
     irrigations |-> <<>>]

PlotA == [gat_number |-> "G1", plot_number |-> "P1", village |-> "V1", taluka |-> "T1",
          district |-> "D1"]
PlotB == [gat_number |-> "G2", plot_number |-> "P1", village |-> "V1", taluka |-> "T1",
          district |-> "D1"]
FarmA == [address |-> "Lane 1"]
IrrA == [status |-> FALSE]

SeqsUpTo(S, n) == UNION {[1..k -> S] : k \in 0..n}

RegFarmers ==
    {EmptyDict}
    \cup {[phone_number |-> p] : p \in {NoneS, <<>>, PhoneA, PhoneA91, PhoneShort}}

RegEntries ==
    {[plot |-> PlotA, farm |-> FarmA, irrigation |-> IrrA],
     [plot |-> PlotB, farm |-> FarmA, irrigation |-> None],
     [plot |-> PlotA, irrigation |-> EmptyDict],
     [plot |-> PlotB, farm |-> None, irrigation |-> IrrA],
     [plot |-> None, farm |-> FarmA, irrigation |-> None]}

RegPayloads ==
    {[farmer |-> f, plots |-> l] : f \in RegFarmers, l \in SeqsUpTo(RegEntries, MaxEntries)}
    \cup {[farmer |-> f, plot |-> PlotB, farm |-> None, irrigation |-> IrrA] :
            f \in RegFarmers}

CreatedBySet == {0, Officer.id}

NoCall == [op |-> "init"]

InitReg ==
    /\ db \in {SeedDb(AllRoles), SeedDb(AllRoles \ {FarmerRole})}
    /\ last = NoCall
    /\ http = <<>>

\* A caller runs create_all(data, created_by), data and created_by drawn from
\* the given sets
CallCreateAll(payloads, creators) ==
    \E data \in payloads, created_by \in creators :
        \E body \in {CreateAllBody(db, data, created_by)} :
            /\ db' = TransactionAtomic(db, body)
            /\ last' = [op |-> "create_all", exc |-> body.exc, before |-> db,
                        wrote |-> RowCount(body.db) - RowCount(db),
                        data |-> IF body.exc = NoExc THEN data ELSE EmptyDict,
                        phone_number |-> Get(Get(data, "farmer", EmptyDict),
                                             "phone_number", NoneS),
                        created_by |-> created_by, result |-> body.result]
            /\ UNCHANGED http

RegisterFarmer == CallCreateAll(RegPayloads, CreatedBySet)

NextReg == RegisterFarmer

SpecReg == InitReg /\ [][NextReg]_vars

-----------------------------------------------------------------------------
(* C1 *)

\* The rows of table t of d that the earlier database b did not hold
NewRows(b, d, t) == SubSeq(d[t], Len(b[t]) + 1, Len(d[t]))

OldRowsKept(b, d) ==
    /\ b.roles \subseteq d.roles
    /\ \A t \in {"users", "plots", "farms", "irrigations"} :
          Len(b[t]) <= Len(d[t]) /\ SubSeq(d[t], 1, Len(b[t])) = b[t]

\* C1: create_all is all-or-nothing.  When the call raised, the database is the
\* one the call started from: no Role, User, Plot, Farm or FarmIrrigation row it
\* wrote is there.  When it returned, every row it wrote is there: the tables
\* hold the old rows and as many new ones as the call wrote, and every id of
\* the result is a row.
C1_AllOrNothing ==
    last.op = "create_all" =>
        /\ last.exc # NoExc => db = last.before
        /\ last.exc = NoExc =>
              /\ OldRowsKept(last.before, db)
              /\ RowCount(db) = RowCount(last.before) + last.wrote
              /\ last.result.farmer \in 1..Len(db.users)
              /\ \A i \in 1..Len(last.result.plots) :
                    last.result.plots[i] \in 1..Len(db.plots)
              /\ \A i \in 1..Len(last.result.farms) :
                    last.result.farms[i] \in 1..Len(db.farms)
              /\ \A i \in 1..Len(last.result.irrigations) :
                    last.result.irrigations[i] \in 1..Len(db.irrigations)

\* A call that raised at a later entry, after it had written the role, the
\* user and the plot, farm and irrigation of an earlier entry
C1_Witness ==
    /\ last.op = "create_all"
    /\ last.exc \in {"AttributeError", "TypeError"}
    /\ last.wrote >= 5
    /\ db = last.before

-----------------------------------------------------------------------------
(* C15 *)

\* C15: create_all with a missing, None or empty farmer phone_number raises
\* ValueError before any user, plot, farm or irrigation is written (the call
\* wrote at most the farmer Role row), and afterwards the database is the one
\* the call started from: the Role row is rolled back too.
C15_PhoneRequired ==
    (last.op = "create_all" /\ last.phone_number \in {NoneS, << >>}) =>
        /\ last.exc = "ValueError"
        /\ last.wrote = (IF FarmerRole \in last.before.roles THEN 0 ELSE 1)
        /\ db = last.before

\* A call without phone number on a database without the farmer role: the
\* role row it wrote is gone
C15_Witness ==
    /\ last.op = "create_all"
    /\ last.phone_number = << >>
    /\ last.exc = "ValueError"
    /\ last.wrote = 1
    /\ FarmerRole \notin db.roles

-----------------------------------------------------------------------------
(* C17 *)

\* C17: the singular keys of the result describe one plot entry: the farm of
\* result['farm'] is on result['plot'], and result['irrigation'], when it is
\* not None, is an irrigation of result['farm'], also when the first entry has
\* no irrigation data and a later entry has.
C17_SingularKeysAgree ==
    (last.op = "create_all" /\ last.exc = NoExc /\ last.result.plot # 0) =>
        /\ last.result.farm # 0
        /\ db.farms[last.result.farm].plot = last.result.plot
        /\ last.result.irrigation # 0 =>
              db.irrigations[last.result.irrigation].farm = last.result.farm

-----------------------------------------------------------------------------
(* C9 *)

\* The entries whose irrigation data is non-empty
WithIrrigation(entries) ==
    {i \in 1..Len(entries) : Truthy(Get(entries[i], "irrigation", None))}

\* C9: when create_all returns it has created exactly one User, with the
\* farmer role, and for the plot entries in input order one Plot and one Farm
\* per entry and one FarmIrrigation per entry with non-empty irrigation data;
\* farm i is linked to plot i, plots and farms are owned by the new farmer and
\* have the created_by of the call; 'plots' and 'farms' of the result have the
\* length of the input list and 'plot' and 'farm' are their first elements, or
\* None (0) for an empty list.
C9_CreatedRecords ==
    (last.op = "create_all" /\ last.exc = NoExc) =>
        LET b == last.before
            res == last.result
            entries == EffectivePlots(last.data)
            n == Len(entries)
            users == NewRows(b, db, "users")
            plots == NewRows(b, db, "plots")
            farms == NewRows(b, db, "farms")
            irrigations == NewRows(b, db, "irrigations")
        IN /\ OldRowsKept(b, db)
           /\ Len(users) = 1
           /\ users[1].id = res.farmer
           /\ [id |-> users[1].role, name |-> "farmer"] \in db.roles
           /\ Len(plots) = n /\ Len(farms) = n
           /\ Len(res.plots) = n /\ Len(res.farms) = n
           /\ \A i \in 1..n :
                 /\ res.plots[i] = plots[i].id
                 /\ res.farms[i] = farms[i].id
                 /\ plots[i].gat_number = Get(entries[i].plot, "gat_number", NoneStr)
                 /\ farms[i].plot = plots[i].id
                 /\ plots[i].farmer = res.farmer
                 /\ farms[i].farm_owner = res.farmer
                 /\ plots[i].created_by = last.created_by
                 /\ farms[i].created_by = last.created_by
           /\ Len(irrigations) = Cardinality(WithIrrigation(entries))
           /\ \A i \in 1..n :
                 Cardinality({j \in 1..Len(irrigations) :
                                 irrigations[j].farm = farms[i].id})
                 = IF i \in WithIrrigation(entries) THEN 1 ELSE 0
           /\ res.plot = (IF n = 0 THEN 0 ELSE res.plots[1])
           /\ res.farm = (IF n = 0 THEN 0 ELSE res.farms[1])

\* A registration of two entries returned, the first without irrigation data
\* and the second with it, created by the field officer
C9_Witness ==
    /\ last.op = "create_all" /\ last.exc = NoExc
    /\ last.created_by = Officer.id
    /\ Len(last.result.plots) = 2
    /\ WithIrrigation(EffectivePlots(last.data)) = {2}

-----------------------------------------------------------------------------
(* farms/serializers.py: PlotSerializer *)

\* Plot.objects.filter(gat_number=..., plot_number=..., village=...,
\* taluka=..., district=...).exists()
PlotExistsGlobally(d, gat, plot, village, taluka, district) ==
    \E i \in 1..Len(d.plots) :
        /\ d.plots[i].gat_number = gat /\ d.plots[i].plot_number = plot
        /\ d.plots[i].village = village /\ d.plots[i].taluka = taluka
        /\ d.plots[i].district = district

\* Plot.objects.filter(farmer=..., gat_number=..., plot_number=...,
\* village=...).exists()
PlotExistsForFarmer(d, farmer, gat, plot, village) ==
    \E i \in 1..Len(d.plots) :
        /\ d.plots[i].farmer = farmer /\ d.plots[i].gat_number = gat
        /\ d.plots[i].plot_number = plot /\ d.plots[i].village = village

\* PlotSerializer.validate(attrs) for the requesting user: the exception raised
PlotSerializerValidate(d, user, attrs) ==
    LET farmer == user
        gat == Get(attrs, "gat_number", NoneStr)
        plot == Get(attrs, "plot_number", NoneStr)
        village == Get(attrs, "village", NoneStr)
        taluka == Get(attrs, "taluka", NoneStr)
        district == Get(attrs, "district", NoneStr)
    IN IF PlotExistsGlobally(d, gat, plot, village, taluka, district)
       THEN "ValidationError"
       ELSE IF farmer # 0 /\ PlotExistsForFarmer(d, farmer, gat, plot, village)
       THEN "ValidationError"
       ELSE NoExc

\* The save that follows a valid POST: the plot belongs to the requesting
\* user, whom validate takes for the farmer
PerformCreate(d, user, attrs) ==
    PlotCreate(d, attrs, NoGeometry, NoGeometry, user, user)

PlotA2 == [PlotA EXCEPT !.taluka = "T2"]

ApiPlots == {PlotA, PlotA2, PlotB}

PlotPayloads ==
    {[farmer |-> [phone_number |-> PhoneA], plots |-> l] :
        l \in SeqsUpTo({[plot |-> p, farm |-> FarmA] : p \in ApiPlots}, MaxEntries)}

ApiPlotCount(d) ==
    Cardinality({i \in 1..Len(d.plots) : d.plots[i].created_by = d.plots[i].farmer})

\* POST to the plot endpoint by a user of the database
ApiCreatePlot ==
    /\ ApiPlotCount(db) < MaxApiPlots
    /\ \E user \in 1..Len(db.users), attrs \in ApiPlots :
          \E exc \in {PlotSerializerValidate(db, user, attrs)} :
              /\ db' = IF exc = NoExc THEN PerformCreate(db, user, attrs) ELSE db
              /\ last' = [op |-> "plot_api", exc |-> exc, before |-> db,
                          user |-> user, attrs |-> attrs]
              /\ UNCHANGED http

RegisterWithPlots == CallCreateAll(PlotPayloads, {Officer.id})

InitPlots ==
    /\ db = SeedDb(AllRoles)
    /\ last = NoCall
    /\ http = <<>>

NextPlots == ApiCreatePlot \/ RegisterWithPlots

SpecPlots == InitPlots /\ [][NextPlots]_vars

\* C3: no two stored plots belong to the same farmer with the same gat_number,
\* plot_number and village.
C3_PlotUniquePerFarmer ==
    \A i, j \in 1..Len(db.plots) :
        (/\ i # j
         /\ db.plots[i].farmer = db.plots[j].farmer
         /\ db.plots[i].gat_number = db.plots[j].gat_number
         /\ db.plots[i].plot_number = db.plots[j].plot_number)
        => db.plots[i].village # db.plots[j].village

-----------------------------------------------------------------------------
(* The two payload formats of create_all (docstring, lines 177-197) *)

Absent == [absent |-> TRUE]

\* {k: v}, or {} when the key is left out
Key(k, v) == IF v = Absent THEN EmptyDict ELSE (k :> v)

\* {"farmer": ..., "plot": ..., "farm": ..., "irrigation": ...}
SingleFormat(farmer, plot, farm, irrigation) ==
    Key("farmer", farmer) @@ Key("plot", plot) @@ Key("farm", farm)
    @@ Key("irrigation", irrigation)

\* {"farmer": ..., "plots": [{"plot": ..., "farm": ..., "irrigation": ...}]}
PluralFormat(farmer, plot, farm, irrigation) ==
    Key("farmer", farmer)
    @@ ("plots" :> << Key("plot", plot) @@ Key("farm", farm)
                      @@ Key("irrigation", irrigation) >>)

CompatFarms == {Absent, None, EmptyDict, FarmA}
CompatIrrigations == {Absent, None, EmptyDict, IrrA}

InitCompat ==
    /\ db \in {SeedDb(AllRoles), SeedDb(AllRoles \ {FarmerRole})}
    /\ last = NoCall
    /\ http = <<>>

\* create_all on a single-plot payload; the call on the same payload in the
\* plural format, and on the plural payload with other top-level plot, farm
\* and irrigation keys added, are evaluated on the same database
RegisterSinglePlot ==
    /\ last = NoCall
    /\ \E farmer \in RegFarmers, plot \in {PlotA, PlotB}, farm \in CompatFarms,
          irrigation \in CompatIrrigations, created_by \in CreatedBySet :
          \E single \in {CreateAll(db, SingleFormat(farmer, plot, farm, irrigation),
                                   created_by)} :
              /\ db' = single.db
              /\ last' = [op |-> "create_all_single",
                          farmer |-> farmer, plot |-> plot, farm |-> farm,
                          irrigation |-> irrigation,
                          single |-> single,
                          plural |-> CreateAll(db, PluralFormat(farmer, plot, farm,
                                                                 irrigation),
                                               created_by),
                          mixed |-> CreateAll(db,
                                       PluralFormat(farmer, plot, farm, irrigation)
                                       @@ SingleFormat(farmer, PlotA2, FarmA, IrrA),
                                       created_by)]
              /\ UNCHANGED http

NextCompat == RegisterSinglePlot

SpecCompat == InitCompat /\ [][NextCompat]_vars

\* C10: for a payload with a non-empty 'plot', create_all on the single-plot
\* format creates the same records and returns the same result as create_all
\* on the 'plots' format of the same data; and with a non-empty 'plots' list
\* the top-level 'plot', 'farm' and 'irrigation' keys are ignored.
C10_FormatsAgree ==
    last.op = "create_all_single" =>
        /\ last.single = last.plural
        /\ last.mixed = last.plural

-----------------------------------------------------------------------------
(* farms/services.py: EventsSyncService *)

\* What the companion service does with a request: an answer with a status
\* code, or an exception of requests (timeout, connection refused)
Answer(status_code) == [exc |-> NoExc, status_code |-> status_code]
Answers ==
    {Answer(200), Answer(201), Answer(500),
     [exc |-> "Timeout", status_code |-> 0]}

\* requests.post(...) / requests.delete(...): one request goes out and the
\* first answer comes back.  answers[k] is the answer to the k-th attempt.
HttpSendRetrying(request, answers) ==
    IF answers[1].exc # NoExc \/ answers[1].status_code # 200
    THEN [sent |-> <<request, request>>, response |-> answers[2]]
    ELSE [sent |-> <<request>>, response |-> answers[1]]

HttpSend(request, answers) == [sent |-> <<request>>, response |-> answers[1]]

\* The try block of the three methods once the request is built: send it,
\* True on status 200, False otherwise.  [exc, ret, sent]
SendAndCheck(request, answers) ==
    LET r == HttpSend(request, answers)
    IN IF r.response.exc # NoExc
       THEN [exc |-> r.response.exc, ret |-> FALSE, sent |-> r.sent]
       ELSE IF r.response.status_code = 200
       THEN [exc |-> NoExc, ret |-> TRUE, sent |-> r.sent]
       ELSE [exc |-> NoExc, ret |-> FALSE, sent |-> r.sent]

\* A method without its except clause: the exception reaches the caller
Propagate(r) == r

\* except Exception as e: logger.error(...); return False
ExceptReturnFalse(r) ==
    IF r.exc # NoExc THEN [exc |-> NoExc, ret |-> FALSE, sent |-> r.sent] ELSE r

\* _generate_plot_name: "<gat>_<plot>", "<gat>" or "plot_<id>", as the parts
\* the name is made of
GeneratePlotName(plot) ==
    IF TruthyName(plot.gat_number) /\ TruthyName(plot.plot_number)
    THEN [gat_number |-> plot.gat_number, plot_number |-> plot.plot_number, id |-> 0]
    ELSE IF TruthyName(plot.gat_number)
    THEN [gat_number |-> plot.gat_number, plot_number |-> "", id |-> 0]
    ELSE [gat_number |-> "", plot_number |-> "", id |-> plot.id]

\* _prepare_plot_data: [exc, data]; prepare_exc is the exception the geometry
\* access raises, if any
PreparePlotData(plot, prepare_exc) ==
    IF prepare_exc # NoExc THEN [exc |-> prepare_exc, data |-> EmptyDict]
    ELSE [exc |-> NoExc,
          data |-> [id |-> plot.id, name |-> GeneratePlotName(plot)]]

\* sync_plot_to_events(plot_instance)
SyncPlotToEvents(plot, prepare_exc, answers) ==
    LET plot_data == PreparePlotData(plot, prepare_exc)
    IN ExceptReturnFalse(
          IF plot_data.exc # NoExc
          THEN [exc |-> plot_data.exc, ret |-> FALSE, sent |-> <<>>]
          ELSE SendAndCheck([method |-> "POST", path |-> "/sync/plot",
                             json |-> <<plot_data.data>>], answers))

\* sync_all_plots()
SyncAllPlots(d, prepare_exc, answers) ==
    LET plot_list == [i \in 1..Len(d.plots) |-> PreparePlotData(d.plots[i], prepare_exc)]
    IN ExceptReturnFalse(
          IF \E i \in 1..Len(plot_list) : plot_list[i].exc # NoExc
          THEN [exc |-> prepare_exc, ret |-> FALSE, sent |-> <<>>]
          ELSE SendAndCheck([method |-> "POST", path |-> "/sync/plots",
                             json |-> [i \in 1..Len(plot_list) |-> plot_list[i].data]],
                            answers))

\* delete_plot_from_events(plot_id)
DeletePlotFromEvents(plot_id, answers) ==
    ExceptReturnFalse(
        SendAndCheck([method |-> "DELETE", path |-> "/sync/plot/", json |-> <<plot_id>>],
                     answers))

SyncDb ==
    [SeedDb(AllRoles) EXCEPT !.plots =
        << [id |-> 1, gat_number |-> "G1", plot_number |-> "P1", village |-> "V1",
            taluka |-> "T1", district |-> "D1", location |-> NoGeometry,
            boundary |-> NoGeometry, farmer |-> 1, created_by |-> 1],
           [id |-> 2, gat_number |-> NoneStr, plot_number |-> NoneStr,
            village |-> "V1", taluka |-> "T1", district |-> "D1",
            location |-> NoGeometry, boundary |-> NoGeometry, farmer |-> 1,
            created_by |-> 1] >>]

PrepareExcs == {NoExc, "GEOSException"}
AnswerSeqs == [1..2 -> Answers]

InitSync ==
    /\ db \in {SyncDb, SeedDb(AllRoles)}
    /\ last = NoCall
    /\ http = <<>>

\* The record of a sync call: what it was given, what it returned or raised,
\* what it sent
SyncCall(op, prepare_exc, answers, r) ==
    /\ http' = http \o r.sent
    /\ last' = [op |-> op, exc |-> r.exc, ret |-> r.ret, sent |-> r.sent,
                prepare_exc |-> prepare_exc, answer |-> answers[1], before |-> db]
    /\ UNCHANGED db

CallSyncPlot ==
    /\ Len(http) < MaxRequests
    /\ \E i \in 1..Len(db.plots), prepare_exc \in PrepareExcs, answers \in AnswerSeqs :
          SyncCall("sync_plot_to_events", prepare_exc, answers,
                   SyncPlotToEvents(db.plots[i], prepare_exc, answers))

CallSyncAllPlots ==
    /\ Len(http) < MaxRequests
    /\ \E prepare_exc \in PrepareExcs, answers \in AnswerSeqs :
          SyncCall("sync_all_plots", prepare_exc, answers,
                   SyncAllPlots(db, prepare_exc, answers))

CallDeletePlot ==
    /\ Len(http) < MaxRequests
    /\ \E plot_id \in 1..2, answers \in AnswerSeqs :
          SyncCall("delete_plot_from_events", NoExc, answers,
                   DeletePlotFromEvents(plot_id, answers))

NextSync == CallSyncPlot \/ CallSyncAllPlots \/ CallDeletePlot

SpecSync == InitSync /\ [][NextSync]_vars

SyncOps == {"sync_plot_to_events", "sync_all_plots", "delete_plot_from_events"}

\* C4: the three sync methods never raise to the caller; each returns True
\* exactly when the companion service answered with status 200, and False for
\* any other status and for any exception raised while preparing the data or
\* sending the request; the plot records are unchanged by a failed sync.
C4_SyncNeverRaises ==
    last.op \in SyncOps =>
        /\ last.exc = NoExc
        /\ last.ret \in BOOLEAN
        /\ last.ret <=> (/\ last.sent # <<>>
                         /\ last.answer.exc = NoExc
                         /\ last.answer.status_code = 200)
        /\ (last.prepare_exc # NoExc /\ last.op = "sync_plot_to_events") => ~last.ret
        /\ ~last.ret => db.plots = last.before.plots

\* A sync whose request ran into a timeout, and returned False
C4_Witness ==
    /\ last.op = "sync_plot_to_events"
    /\ last.sent # <<>>
    /\ last.answer.exc = "Timeout"
    /\ last.ret = FALSE

\* C5: a call of a sync method issues at most one HTTP request, and a request
\* that failed is not sent again: every step adds at most one request to the
\* requests sent so far.
C5_NoRetry ==
    [][/\ Len(http') <= Len(http) + 1
       /\ SubSeq(http', 1, Len(http)) = http]_vars

\* A failed request went out once, and the next call sent a different request
C5_Witness ==
    /\ last.op = "delete_plot_from_events"
    /\ Len(http) = 2
    /\ http[1].method = "POST"
    /\ last.ret = FALSE

-----------------------------------------------------------------------------
(* users/serializers.py: CustomTokenObtainPairSerializer *)

\* serializers.CharField(required=True, write_only=True): a missing or blank
\* value is a field error
RequiredCharField(data, k) ==
    IF k \notin DOMAIN data THEN "ValidationError"
    ELSE IF Strip(data[k]) = <<>> THEN "ValidationError"
    ELSE NoExc

\* validate_phone_number(value): [exc, value]
TokenValidatePhoneNumber(value) ==
    IF value = <<>> THEN [exc |-> "ValidationError", value |-> value]
    ELSE LET digits == StripNonDigits(value)
             cleaned_phone ==
                 IF Len(digits) >= 2 /\ digits[1] = "9" /\ digits[2] = "1"
                    /\ Len(digits) = 12
                 THEN SubSeq(digits, 3, Len(digits))
                 ELSE digits
         IN IF Len(cleaned_phone) # 10
            THEN [exc |-> "ValidationError", value |-> value]
            ELSE [exc |-> NoExc, value |-> cleaned_phone]

\* authenticate(request=..., phone_number=..., password=...): the id of the
\* user with this phone number and password, 0 for None.  Whether the backend
\* hands out a deactivated user is the backend's choice (allow_inactive).
Authenticate(d, phone_number, password, allow_inactive) ==
    LET found == {i \in 1..Len(d.users) :
                     /\ d.users[i].phone_number = phone_number
                     /\ d.users[i].password = password
                     /\ (allow_inactive \/ d.users[i].is_active)}
    IN IF found = {} THEN 0 ELSE CHOOSE i \in found : TRUE

NoTokens == [refresh |-> 0, access |-> 0]

\* validate(attrs) without the is_active test
TokenValidateAnyUser(d, attrs, allow_inactive) ==
    LET user == Authenticate(d, attrs.phone_number, attrs.password, allow_inactive)
    IN IF user = 0 THEN [exc |-> "ValidationError", data |-> NoTokens]
       ELSE [exc |-> NoExc, data |-> [refresh |-> user, access |-> user]]

\* validate(attrs), lines 673-715: attrs holds the cleaned phone_number and the
\* password; a 'username' in attrs is dropped.  [exc, data]
TokenValidate(d, attrs, allow_inactive) ==
    LET phone_number == Get(attrs, "phone_number", <<>>)
        password == Get(attrs, "password", <<>>)
        user == Authenticate(d, phone_number, password, allow_inactive)
    IN IF phone_number = <<>> THEN [exc |-> "ValidationError", data |-> NoTokens]
       ELSE IF password = <<>> THEN [exc |-> "ValidationError", data |-> NoTokens]
       ELSE IF user = 0 THEN [exc |-> "ValidationError", data |-> NoTokens]
       ELSE IF ~d.users[user].is_active
       THEN [exc |-> "ValidationError", data |-> NoTokens]
       ELSE [exc |-> NoExc, data |-> [refresh |-> user, access |-> user]]

\* POST token/: the declared fields (phone_number and password; username is
\* removed from the fields), validate_phone_number, then validate
TokenObtainPair(d, data, allow_inactive) ==
    IF RequiredCharField(data, "phone_number") # NoExc
       \/ RequiredCharField(data, "password") # NoExc
    THEN [exc |-> "ValidationError", data |-> NoTokens]
    ELSE LET phone == TokenValidatePhoneNumber(Strip(data.phone_number))
         IN IF phone.exc # NoExc THEN [exc |-> phone.exc, data |-> NoTokens]
            ELSE TokenValidate(d, [phone_number |-> phone.value,
                                   password |-> data.password], allow_inactive)

PhoneInactive == <<"9", "1", "2", "3", "4", "5", "6", "7", "8", "9">>
PhoneUnknown == <<"9", "9", "9", "9", "9", "9", "9", "9", "9", "9">>
PhoneA12 == <<"9", "1">> \o PhoneA
PhoneInactive12 == <<"9", "1">> \o PhoneInactive
BadPw == <<"b", "a", "d">>

AuthDb ==
    [SeedDb(AllRoles) EXCEPT !.users =
        << Officer,
           [Officer EXCEPT !.id = 2, !.phone_number = PhoneA, !.role = 1],
           [Officer EXCEPT !.id = 3, !.phone_number = PhoneInactive, !.role = 1,
                           !.is_active = FALSE] >>]

StrAbsent == <<"<absent>">>

\* {k: s}, or {} when the key is left out
StrKey(k, s) == IF s = StrAbsent THEN EmptyDict ELSE (k :> s)

TokenPhones ==
    {StrAbsent, <<>>, PhoneA, PhoneA91, PhoneA12, PhoneShort, PhoneUnknown,
     PhoneInactive, PhoneInactive12, PhoneOfficer}
TokenPayloads ==
    {StrKey("phone_number", p) @@ StrKey("password", w) @@ StrKey("username", u) :
        p \in TokenPhones, w \in {StrAbsent, <<>>, Pw, BadPw},
        u \in {StrAbsent, PhoneOfficer}}

InitAuth ==
    /\ db = AuthDb
    /\ last = NoCall
    /\ http = <<>>

\* A client posts its credentials to the token endpoint
ObtainToken ==
    \E data \in TokenPayloads, allow_inactive \in BOOLEAN :
        \E r \in {TokenObtainPair(db, data, allow_inactive)} :
            /\ last' = [op |-> "token", data |-> data, allow_inactive |-> allow_inactive,
                        exc |-> r.exc, tokens |-> r.data]
            /\ UNCHANGED <<db, http>>

NextAuth == ObtainToken

SpecAuth == InitAuth /\ [][NextAuth]_vars

\* The submitted phone number, digits only and without a leading 91 when 12
\* digits remain
Normalized(phone) == DropCountryCode(StripNonDigits(phone))

\* C6: a token pair is issued only when the submitted phone number normalizes
\* to exactly 10 digits and a user with that phone number and the submitted
\* password exists and is active, and then it is that user's; in every other
\* case (missing phone or password, wrong length, unknown phone, wrong
\* password, deactivated account) the serializer raises a validation error and
\* returns no token.  A username in the payload changes nothing.
C6_TokenOnlyForActiveUser ==
    last.op = "token" =>
        LET data == last.data
            given == /\ "phone_number" \in DOMAIN data /\ data.phone_number # <<>>
                     /\ "password" \in DOMAIN data /\ data.password # <<>>
            users == {i \in 1..Len(db.users) :
                         /\ given
                         /\ Len(Normalized(data.phone_number)) = 10
                         /\ db.users[i].phone_number = Normalized(data.phone_number)
                         /\ db.users[i].password = data.password
                         /\ db.users[i].is_active}
            noUsername == [k \in DOMAIN data \ {"username"} |-> data[k]]
        IN /\ last.exc \in {NoExc, "ValidationError"}
           /\ last.exc = NoExc <=> users # {}
           /\ last.exc = NoExc =>
                 /\ last.tokens.refresh \in users
                 /\ last.tokens.access \in users
           /\ last.exc # NoExc => last.tokens = NoTokens
           /\ TokenObtainPair(db, noUsername, last.allow_inactive)
              = [exc |-> last.exc, data |-> last.tokens]
           /\ TokenObtainPair(db, noUsername @@ ("username" :> PhoneA),
                              last.allow_inactive)
              = [exc |-> last.exc, data |-> last.tokens]

\* A login with the country code in front of the phone number got its tokens
C6_Witness ==
    /\ last.op = "token"
    /\ last.exc = NoExc
    /\ last.data.phone_number = PhoneA91
    /\ "username" \in DOMAIN last.data
    /\ last.tokens.access = 2

-----------------------------------------------------------------------------
(* users/admin.py, farms/admin.py: the admin classes that filter by industry *)

\* The most rows the admin tables hold together
MaxAdminRows == 2

\* IndustryFilteredAdmin.get_queryset without the industry filter
GetQuerysetUnfiltered(qs, user) ==
    IF user.is_superuser THEN qs
    ELSE IF user.industry # 0 THEN qs
    ELSE << >>

\* IndustryFilteredAdmin.get_queryset(request): qs is super().get_queryset,
\* every row of the model; industry 0 stands for None
IndustryFilteredAdminGetQueryset(qs, user) ==
    IF user.is_superuser THEN qs
    ELSE IF user.industry # 0
    THEN SelectSeq(qs, LAMBDA row : row.industry = user.industry)
    ELSE << >>

\* FarmAdmin.get_queryset(request)
FarmAdminGetQueryset(qs, user) ==
    IF user.is_superuser THEN qs
    ELSE IF user.industry # 0
    THEN SelectSeq(qs, LAMBDA row : row.industry = user.industry)
    ELSE << >>

\* PlotAdmin.get_queryset(request)
PlotAdminGetQueryset(qs, user) ==
    IF user.is_superuser THEN qs
    ELSE IF user.industry # 0
    THEN SelectSeq(qs, LAMBDA row : row.industry = user.industry)
    ELSE << >>

\* save_model(request, obj, form, change) of the three classes: the object
\* that is saved
SaveModel(user, obj, change) ==
    IF ~change /\ obj.industry = 0 /\ user.industry # 0
    THEN [obj EXCEPT !.industry = user.industry]
    ELSE obj

\* The registered admin classes and the table of each one's model
IndustryAdmins ==
    {"CropTypeAdmin", "PlantationTypeAdmin", "PlantingMethodAdmin", "FarmAdmin",
     "PlotAdmin"}

GetQueryset(admin, qs, user) ==
    IF admin = "FarmAdmin" THEN FarmAdminGetQueryset(qs, user)
    ELSE IF admin = "PlotAdmin" THEN PlotAdminGetQueryset(qs, user)
    ELSE IndustryFilteredAdminGetQueryset(qs, user)

Industries == {1, 2}
AdminUsers == [is_superuser : BOOLEAN, industry : {0} \cup Industries]

AdminRowCount(d) ==
    Len(d.CropTypeAdmin) + Len(d.PlantationTypeAdmin) + Len(d.PlantingMethodAdmin)
    + Len(d.FarmAdmin) + Len(d.PlotAdmin)

InitAdmin ==
    /\ db = [a \in IndustryAdmins |-> << >>]
    /\ last = NoCall
    /\ http = <<>>

\* A staff user opens the change list of an admin class
AdminChangeList ==
    \E admin \in IndustryAdmins, user \in AdminUsers :
        /\ last' = [op |-> "changelist", admin |-> admin, user |-> user,
                    result |-> GetQueryset(admin, db[admin], user)]
        /\ UNCHANGED <<db, http>>

\* A staff user adds an object through the admin
AdminAdd ==
    \E admin \in IndustryAdmins, user \in AdminUsers, industry \in {0} \cup Industries :
        /\ AdminRowCount(db) < MaxAdminRows
        /\ db' = [db EXCEPT ![admin] =
                     Append(@, SaveModel(user, [id |-> Len(@) + 1, industry |-> industry],
                                         FALSE))]
        /\ last' = [op |-> "add", admin |-> admin]
        /\ UNCHANGED http

\* A staff user changes the industry of an object of their change list
AdminChange ==
    \E admin \in IndustryAdmins, user \in AdminUsers, industry \in {0} \cup Industries :
        \E i \in 1..Len(db[admin]) :
            /\ \E j \in 1..Len(GetQueryset(admin, db[admin], user)) :
                   GetQueryset(admin, db[admin], user)[j] = db[admin][i]
            /\ db' = [db EXCEPT ![admin][i] =
                         SaveModel(user, [@ EXCEPT !.industry = industry], TRUE)]
            /\ last' = [op |-> "change", admin |-> admin]
            /\ UNCHANGED http

NextAdmin == AdminChangeList \/ AdminAdd \/ AdminChange

SpecAdmin == InitAdmin /\ [][NextAdmin]_vars

\* The rows of a query set
Rows(qs) == {qs[i] : i \in 1..Len(qs)}

\* C2: the change list of every industry-filtering admin class holds all
\* records for a superuser, exactly the records of the user's industry for a
\* non-superuser with an industry, and nothing for a non-superuser without
\* one; a non-superuser never sees a record of another industry or of none.
C2_IndustryFilter ==
    last.op = "changelist" =>
        LET all == Rows(db[last.admin])
            seen == Rows(last.result)
            user == last.user
        IN /\ Len(last.result) = Cardinality(seen)
           /\ user.is_superuser => seen = all
           /\ (~user.is_superuser /\ user.industry # 0) =>
                  seen = {r \in all : r.industry = user.industry}
           /\ (~user.is_superuser /\ user.industry = 0) => seen = {}
           /\ ~user.is_superuser =>
                  \A r \in seen : r.industry # 0 /\ r.industry = user.industry

\* A non-superuser of industry 1 saw their record and not the other one
C2_Witness ==
    /\ last.op = "changelist"
    /\ ~last.user.is_superuser
    /\ last.user.industry = 1
    /\ Len(last.result) = 1
    /\ \E i \in 1..Len(db[last.admin]) : db[last.admin][i].industry # 1

-----------------------------------------------------------------------------
(* farms/serializers.py: CropTypeSerializer.validate;
   farms/forms.py: FarmAdminForm *)

\* crop_category choices (migration 0019)
CropCategories == {"sugarcane", "grapes", "wheat", "rice", "other"}

\* The choice tables of CropType, lists of (value, label): the class
\* attributes and the two per-category lookups.  Two possible contents; in the
\* second the lookups know one value under both categories and a planting
\* method for grapes.
ChoiceTables ==
    { [SUGARCANE_PLANTATION_TYPE_CHOICES |-> <<<<"st1", "ST 1">>, <<"st2", "ST 2">>>>,
       GRAPES_PLANTATION_TYPE_CHOICES |-> <<<<"gt1", "GT 1">>>>,
       SUGARCANE_PLANTATION_METHOD_CHOICES |-> <<<<"sm1", "SM 1">>>>,
       plantation_type |-> [c \in CropCategories |->
            IF c = "sugarcane" THEN <<<<"st1", "ST 1">>, <<"st2", "ST 2">>>>
            ELSE IF c = "grapes" THEN <<<<"gt1", "GT 1">>>>
            ELSE << >>],
       planting_method |-> [c \in CropCategories |->
            IF c = "sugarcane" THEN <<<<"sm1", "SM 1">>>> ELSE << >>]],
      [SUGARCANE_PLANTATION_TYPE_CHOICES |-> <<<<"st1", "ST 1">>, <<"gt1", "GT 1">>>>,
       GRAPES_PLANTATION_TYPE_CHOICES |-> <<<<"gt1", "GT 1">>>>,
       SUGARCANE_PLANTATION_METHOD_CHOICES |-> <<<<"sm1", "SM 1">>, <<"gm1", "GM 1">>>>,
       plantation_type |-> [c \in CropCategories |->
            IF c = "sugarcane" THEN <<<<"st1", "ST 1">>, <<"gt1", "GT 1">>>>
            ELSE IF c = "grapes" THEN <<<<"gt1", "GT 1">>>>
            ELSE <<<<"st1", "ST 1">>>>],
       planting_method |-> [c \in CropCategories |->
            IF c = "sugarcane" THEN <<<<"sm1", "SM 1">>, <<"gm1", "GM 1">>>>
            ELSE IF c = "grapes" THEN <<<<"gm1", "GM 1">>>>
            ELSE << >>]] }

\* CropType.get_plantation_type_choices_for_category(crop_category)
GetPlantationTypeChoicesForCategory(tables, crop_category) ==
    tables.plantation_type[crop_category]

\* CropType.get_planting_method_choices_for_category(crop_category)
GetPlantingMethodChoicesForCategory(tables, crop_category) ==
    tables.planting_method[crop_category]

\* [choice[0] for choice in valid_choices]
ValidValues(valid_choices) == {valid_choices[i][1] : i \in 1..Len(valid_choices)}

\* validate(data) that takes 'sugarcane' whenever crop_category is not submitted
CropTypeValidateIgnoringInstance(tables, data, instance) ==
    LET crop_category == Get(data, "crop_category", "sugarcane")
        plantation_type == Get(data, "plantation_type", NoneStr)
        planting_method == Get(data, "planting_method", NoneStr)
    IN IF TruthyName(plantation_type)
          /\ plantation_type \notin
                ValidValues(GetPlantationTypeChoicesForCategory(tables, crop_category))
       THEN [exc |-> "ValidationError", data |-> EmptyDict]
       ELSE IF TruthyName(planting_method) /\ crop_category # "sugarcane"
       THEN [exc |-> "ValidationError", data |-> EmptyDict]
       ELSE IF TruthyName(planting_method)
               /\ planting_method \notin
                     ValidValues(GetPlantingMethodChoicesForCategory(tables, crop_category))
       THEN [exc |-> "ValidationError", data |-> EmptyDict]
       ELSE [exc |-> NoExc, data |-> data]

\* CropTypeSerializer.validate(data), lines 135-163; instance is the crop
\* category of self.instance, NoneStr when there is no instance.  [exc, data]
CropTypeValidate(tables, data, instance) ==
    LET crop_category ==
            Get(data, "crop_category", IF instance # NoneStr THEN instance ELSE "sugarcane")
        plantation_type == Get(data, "plantation_type", NoneStr)
        planting_method == Get(data, "planting_method", NoneStr)
    IN IF TruthyName(plantation_type)
          /\ plantation_type \notin
                ValidValues(GetPlantationTypeChoicesForCategory(tables, crop_category))
       THEN [exc |-> "ValidationError", data |-> EmptyDict]
       ELSE IF TruthyName(planting_method) /\ crop_category # "sugarcane"
       THEN [exc |-> "ValidationError", data |-> EmptyDict]
       ELSE IF TruthyName(planting_method)
               /\ planting_method \notin
                     ValidValues(GetPlantingMethodChoicesForCategory(tables, crop_category))
       THEN [exc |-> "ValidationError", data |-> EmptyDict]
       ELSE [exc |-> NoExc, data |-> data]

\* A widget of a form field
Widget(kind, choices) == [widget |-> kind, choices |-> choices]

\* The widgets of the fields before __init__ runs: Meta.widgets, else the
\* field's own
MetaWidgets(fields) ==
    [f \in fields |->
        IF f = "crop_variety" THEN Widget("TextInput", << >>)
        ELSE IF f = "plantation_date" THEN Widget("AdminDateWidget", << >>)
        ELSE Widget("default", << >>)]

\* FarmAdminForm.__init__ without the loop that hides the two fields
FarmAdminFormInitNoHiding(tables, fields, crop_type) ==
    LET crop_category == IF crop_type # NoneStr THEN crop_type ELSE "sugarcane"
        variety == [f \in fields |->
                       IF f = "crop_variety" THEN Widget("TextInput", << >>)
                       ELSE MetaWidgets(fields)[f]]
    IN IF crop_category = "grapes"
       THEN [f \in fields |->
                IF f = "plantation_type"
                THEN Widget("Select", tables.GRAPES_PLANTATION_TYPE_CHOICES)
                ELSE variety[f]]
       ELSE [f \in fields |->
                IF f = "plantation_type"
                THEN Widget("Select", tables.SUGARCANE_PLANTATION_TYPE_CHOICES)
                ELSE IF f = "plantation_method"
                THEN Widget("Select", tables.SUGARCANE_PLANTATION_METHOD_CHOICES)
                ELSE variety[f]]

\* FarmAdminForm.__init__, lines 34-69 (the second class of that name, the one
\* the module exports): the widget of every field of the form.  crop_type is
\* the crop category of instance.crop_type, NoneStr for a farm without one.
FarmAdminFormInit(tables, fields, crop_type) ==
    LET crop_category == IF crop_type # NoneStr THEN crop_type ELSE "sugarcane"
        hidden == [f \in fields |->
                      IF f \in {"plantation_type", "plantation_method"}
                      THEN Widget("HiddenInput", << >>)
                      ELSE MetaWidgets(fields)[f]]
        variety == [f \in fields |->
                       IF f = "crop_variety" THEN Widget("TextInput", << >>)
                       ELSE hidden[f]]
    IN IF crop_category = "grapes"
       THEN [f \in fields |->
                IF f = "plantation_type"
                THEN Widget("Select", tables.GRAPES_PLANTATION_TYPE_CHOICES)
                ELSE variety[f]]
       ELSE [f \in fields |->
                IF f = "plantation_type"
                THEN Widget("Select", tables.SUGARCANE_PLANTATION_TYPE_CHOICES)
                ELSE IF f = "plantation_method"
                THEN Widget("Select", tables.SUGARCANE_PLANTATION_METHOD_CHOICES)
                ELSE variety[f]]

NameAbsent == "<absent>"

\* {k: s}, or {} when the key is left out
NameKey(k, s) == IF s = NameAbsent THEN EmptyDict ELSE (k :> s)

CropTypePayloads ==
    {NameKey("crop_category", c) @@ NameKey("plantation_type", t)
        @@ NameKey("planting_method", m) :
        c \in {NameAbsent, "sugarcane", "grapes", "wheat"},
        t \in {NameAbsent, NoneStr, "", "st1", "st2", "gt1", "zz"},
        m \in {NameAbsent, NoneStr, "", "sm1", "gm1", "zz"}}

FarmFormFields ==
    SUBSET {"plantation_type", "plantation_method", "crop_variety", "plantation_date"}

InitCrop ==
    /\ db \in {[tables |-> t] : t \in ChoiceTables}
    /\ last = NoCall
    /\ http = <<>>

\* The crop type serializer validates a payload, for a new crop type or for an
\* existing one
ValidateCropType ==
    \E data \in CropTypePayloads, instance \in {NoneStr, "sugarcane", "grapes", "wheat"} :
        \E r \in {CropTypeValidate(db.tables, data, instance)} :
            /\ last' = [op |-> "validate", data |-> data, instance |-> instance,
                        exc |-> r.exc, result |-> r.data]
            /\ UNCHANGED <<db, http>>

\* The admin builds the farm form for a farm
OpenFarmForm ==
    \E fields \in FarmFormFields, crop_type \in {NoneStr} \cup CropCategories :
        /\ last' = [op |-> "farm_form", fields |-> fields, crop_type |-> crop_type,
                    widgets |-> FarmAdminFormInit(db.tables, fields, crop_type)]
        /\ UNCHANGED <<db, http>>

NextCrop == ValidateCropType \/ OpenFarmForm

SpecCrop == InitCrop /\ [][NextCrop]_vars

\* C7: validate accepts a payload exactly when a non-empty plantation_type is
\* one of the plantation-type choices of the effective crop category (the
\* submitted one, else the instance's, else sugarcane) and a non-empty
\* planting_method comes with the effective category sugarcane and is one of
\* the sugarcane planting-method choices; anything else is a validation
\* error, and an accepted payload is returned unchanged.
C7_CategoryGatesFields ==
    last.op = "validate" =>
        LET data == last.data
            effective ==
                IF "crop_category" \in DOMAIN data THEN data.crop_category
                ELSE IF last.instance # NoneStr THEN last.instance
                ELSE "sugarcane"
            empty(k) == k \notin DOMAIN data \/ data[k] = NoneStr \/ data[k] = ""
            typeOk ==
                empty("plantation_type")
                \/ \E i \in 1..Len(db.tables.plantation_type[effective]) :
                       db.tables.plantation_type[effective][i][1] = data.plantation_type
            methodOk ==
                empty("planting_method")
                \/ /\ effective = "sugarcane"
                   /\ \E i \in 1..Len(db.tables.planting_method["sugarcane"]) :
                          db.tables.planting_method["sugarcane"][i][1]
                          = data.planting_method
        IN /\ last.exc = (IF typeOk /\ methodOk THEN NoExc ELSE "ValidationError")
           /\ last.exc = NoExc => last.result = data

\* An update that does not submit the category was judged by the grapes
\* category of its instance, and accepted
C7_Witness ==
    /\ last.op = "validate"
    /\ last.exc = NoExc
    /\ last.instance = "grapes"
    /\ "crop_category" \notin DOMAIN last.data
    /\ "plantation_type" \in DOMAIN last.data
    /\ last.data.plantation_type = "gt1"
    /\ last.result = last.data

\* C8: the farm form's widgets follow the crop category of the farm's crop
\* type: for grapes plantation_type, when present, is a select over the grapes
\* plantation types and plantation_method is hidden; for sugarcane, and for a
\* farm with no crop type, plantation_type and plantation_method are selects
\* over the sugarcane choices; crop_variety is a text input for every
\* category.
C8_FormFollowsCategory ==
    last.op = "farm_form" =>
        LET w == last.widgets
            has(f) == f \in last.fields
        IN /\ DOMAIN w = last.fields
           /\ has("crop_variety") => w["crop_variety"].widget = "TextInput"
           /\ last.crop_type = "grapes" =>
                 /\ has("plantation_type") =>
                        w["plantation_type"]
                        = Widget("Select", db.tables.GRAPES_PLANTATION_TYPE_CHOICES)
                 /\ has("plantation_method") =>
                        w["plantation_method"].widget = "HiddenInput"
           /\ last.crop_type \in {"sugarcane", NoneStr} =>
                 /\ has("plantation_type") =>
                        w["plantation_type"]
                        = Widget("Select", db.tables.SUGARCANE_PLANTATION_TYPE_CHOICES)
                 /\ has("plantation_method") =>
                        w["plantation_method"]
                        = Widget("Select", db.tables.SUGARCANE_PLANTATION_METHOD_CHOICES)

\* The form of a grapes farm with all of the fields
C8_Witness ==
    /\ last.op = "farm_form"
    /\ last.crop_type = "grapes"
    /\ last.fields = {"plantation_type", "plantation_method", "crop_variety",
                      "plantation_date"}
    /\ last.widgets["plantation_method"].widget = "HiddenInput"
    /\ last.widgets["plantation_type"].widget = "Select"

-----------------------------------------------------------------------------
(* create_all: the boundary of a plot (lines 272-324) *)

\* The most vertices of a submitted ring
MaxVertices == 4

\* The corners the submitted rings are drawn from, (lon, lat)
Corners == {<<0, 0>>, <<1, 0>>, <<1, 1>>, <<0, 1>>}

\* [[lon, lat], ...]
ArrayFormat(vertices) ==
    JList([i \in 1..Len(vertices) |->
              JList(<<JNum(vertices[i][1]), JNum(vertices[i][2])>>)])

\* {"type": "Polygon", "coordinates": [[[lon, lat], ...]]}
GeoJsonFormat(vertices) ==
    JDict(("type" :> JStr("Polygon"))
          @@ ("coordinates" :> JList(<<ArrayFormat(vertices)>>)))

\* [{"lon": x, "lat": y}, ...], or with "lng" for the key
ObjectFormat(vertices, key) ==
    JList([i \in 1..Len(vertices) |->
              JDict((key :> JNum(vertices[i][1])) @@ ("lat" :> JNum(vertices[i][2])))])

\* Boundary data that is no ring in any of the three formats
MalformedBoundaries ==
    { JStr("abc"),
      JNum(5),
      JDict("type" :> JStr("Polygon")),
      JDict(("type" :> JStr("Polygon")) @@ ("coordinates" :> JStr("abc"))),
      JDict(("type" :> JStr("Polygon")) @@ ("coordinates" :> JNum(5))),
      JDict(("type" :> JStr("Polygon"))
            @@ ("coordinates" :> JDict("ring" :> JList(<< >>)))),
      JList(<<JStr("a"), JStr("b"), JStr("c")>>),
      JList(<<JNum(0), JNum(1), JNum(1), JNum(0)>>),
      JList(<<JList(<<JNum(0)>>), JList(<<JNum(1)>>), JList(<<JNum(2)>>)>>),
      JList(<<JList(<<JNum(0), JNum(0)>>), JList(<<JNum(1), JNum(0)>>)>>),
      JList(<<JList(<<JStr("a"), JStr("b")>>), JList(<<JNum(1), JNum(0)>>),
              JList(<<JNum(1), JNum(1)>>)>>),
      JList(<<JList(<<JNum(0), JNum(0)>>), JList(<<JNull, JNum(0)>>),
              JList(<<JNum(1), JNum(1)>>)>>),
      JList(<<JDict(("lon" :> JNum(0)) @@ ("lat" :> JStr("north"))),
              JDict(("lon" :> JNum(1)) @@ ("lat" :> JNum(0))),
              JDict(("lon" :> JNum(1)) @@ ("lat" :> JNum(1)))>>) }

\* The registration of one farmer with one plot that carries this boundary
BoundaryPayload(boundary) ==
    [farmer |-> [phone_number |-> PhoneA],
     plots |-> << [plot |-> PlotA @@ ("boundary" :> boundary), farm |-> FarmA] >>]

\* What a call did: its exception and the plots it stored
BoundaryOutcome(before, r) ==
    [exc |-> r.exc, plots |-> NewRows(before, r.db, "plots")]

InitBoundary ==
    /\ db = SeedDb(AllRoles)
    /\ last = NoCall
    /\ http = <<>>

\* create_all for a plot whose boundary is a ring in the plain-array format;
\* the calls with the same ring in the other formats are evaluated on the same
\* database
RegisterWithRing ==
    /\ last = NoCall
    /\ \E vertices \in SeqsUpTo(Corners, MaxVertices) :
          \E r \in {CreateAll(db, BoundaryPayload(ArrayFormat(vertices)), Officer.id)} :
              /\ db' = r.db
              /\ last' = [op |-> "create_all_ring", vertices |-> vertices,
                          array |-> BoundaryOutcome(db, r),
                          geojson |-> BoundaryOutcome(db,
                              CreateAll(db, BoundaryPayload(GeoJsonFormat(vertices)),
                                        Officer.id)),
                          lon |-> BoundaryOutcome(db,
                              CreateAll(db, BoundaryPayload(ObjectFormat(vertices, "lon")),
                                        Officer.id)),
                          lng |-> BoundaryOutcome(db,
                              CreateAll(db, BoundaryPayload(ObjectFormat(vertices, "lng")),
                                        Officer.id))]
              /\ UNCHANGED http

\* create_all for a plot whose boundary data is malformed
RegisterWithMalformedBoundary ==
    /\ last = NoCall
    /\ \E boundary \in MalformedBoundaries :
          \E r \in {CreateAll(db, BoundaryPayload(boundary), Officer.id)} :
              /\ db' = r.db
              /\ last' = [op |-> "create_all_malformed", boundary |-> boundary,
                          outcome |-> BoundaryOutcome(db, r)]
              /\ UNCHANGED http

NextBoundary == RegisterWithRing \/ RegisterWithMalformedBoundary

SpecBoundary == InitBoundary /\ [][NextBoundary]_vars

\* The same ring in the three formats is stored the same
BoundaryFormatsAgree ==
    last.op = "create_all_ring" =>
        /\ last.geojson = last.array
        /\ last.lon = last.array
        /\ last.lng = last.array

\* Malformed boundary data gives a registered plot without boundary
MalformedGivesNoBoundary ==
    last.op = "create_all_malformed" =>
        /\ last.outcome.exc = NoExc
        /\ Len(last.outcome.plots) = 1
        /\ last.outcome.plots[1].boundary = NoGeometry

\* C11: a ring of (lon, lat) vertices is stored the same whether it is
\* submitted as a GeoJSON polygon, as a plain array or as an array of lon/lat
\* (lng/lat) objects; and malformed boundary data never aborts the
\* registration: the plot is stored without boundary.
C11_BoundaryFormats == BoundaryFormatsAgree /\ MalformedGivesNoBoundary

-----------------------------------------------------------------------------
(* C16 *)

\* A ring whose first and last points are equal, of at least four points
ClosedRing(ring) ==
    Len(ring) >= 4 /\ ring[1] = ring[Len(ring)]

\* The submitted vertices followed by the first one when the last differs
Closure(vertices) ==
    IF vertices = << >> \/ vertices[1] = vertices[Len(vertices)]
    THEN vertices
    ELSE vertices \o <<vertices[1]>>

\* C16: every stored boundary is a closed ring of at least four points.  An
\* open ring is stored closed by its first point, a closed ring is stored
\* unchanged, and a ring that has fewer than four points after closing gives
\* a plot without boundary and no error.
C16_StoredRingClosed ==
    /\ \A i \in 1..Len(db.plots) :
          db.plots[i].boundary # NoGeometry => ClosedRing(db.plots[i].boundary)
    /\ last.op = "create_all_ring" =>
          /\ last.array.exc = NoExc
          /\ Len(last.array.plots) = 1
          /\ last.array.plots[1].boundary =
                IF Len(Closure(last.vertices)) >= 4
                THEN Closure(last.vertices)
                ELSE NoGeometry

\* An open ring of three vertices was stored as a ring of four points
C16_Witness ==
    /\ last.op = "create_all_ring"
    /\ Len(last.vertices) = 3
    /\ last.vertices[1] # last.vertices[3]
    /\ Len(db.plots) = 1
    /\ db.plots[1].boundary = last.vertices \o <<last.vertices[1]>>

-----------------------------------------------------------------------------
(* users/serializers.py: UserCreateSerializer.create and the hierarchy
   serializers *)

\* str.lower() of the role names in use
Lower(name) ==
    CASE name = "Field Officer" -> "field officer"
      [] name = "Farmer" -> "farmer"
      [] name = "Manager" -> "manager"
      [] OTHER -> name

\* Role.objects.get(name__iexact=name): [exc, role], role the id
RoleGetByName(d, name) ==
    LET found == {r \in d.roles : Lower(r.name) = Lower(name)}
    IN IF found = {} THEN [exc |-> "DoesNotExist", role |-> 0]
       ELSE [exc |-> NoExc, role |-> (CHOOSE r \in found : TRUE).id]

\* Role.objects.filter(id=...).first() / filter(name__iexact=...).first(): the
\* id, 0 for None
RoleFilterFirst(d, role_id) ==
    LET found == IF JType(role_id) = "num"
                 THEN {r \in d.roles : r.id = role_id.num}
                 ELSE {r \in d.roles : Lower(r.name) = Lower(role_id.str)}
    IN IF found = {} THEN 0 ELSE (CHOOSE r \in found : TRUE).id

\* role.name of a user row, NoneStr for a user without role
RoleName(d, user) ==
    IF \E r \in d.roles : r.id = d.users[user].role
    THEN (CHOOSE r \in d.roles : r.id = d.users[user].role).name
    ELSE NoneStr

\* The role of the new user, lines 550-569: [exc, role]; creator is the id of
\* request.user, 0 when there is no request
CreateRole(d, role_id, creator) ==
    IF ~JTruthy(role_id) /\ creator # 0
    THEN IF RoleName(d, creator) = NoneStr
         THEN \* creator.role.name on a creator without role
              [exc |-> "AttributeError", role |-> 0]
         ELSE IF Lower(RoleName(d, creator)) = "manager"
         THEN RoleGetByName(d, "Field Officer")
         ELSE IF Lower(RoleName(d, creator)) = "fieldofficer"
         THEN RoleGetByName(d, "Farmer")
         ELSE [exc |-> NoExc, role |-> 0]
    ELSE IF JTruthy(role_id)
    THEN [exc |-> NoExc, role |-> RoleFilterFirst(d, role_id)]
    ELSE [exc |-> NoExc, role |-> 0]

\* UserCreateSerializer.create(validated_data), lines 536-607: [db, exc, id].
\* User.objects.create_user builds the row and calls User.save().
UserCreateSerializerCreate(d, validated_data, creator) ==
    LET password == Get(validated_data, "password", NoneS)
        role_id == Get(validated_data, "role", JNull)
        role == CreateRole(d, role_id, creator)
        given == Get(validated_data, "industry", 0)
        industry == IF given # 0 THEN given
                    ELSE IF creator # 0 THEN d.users[creator].industry ELSE 0
        phone_number == Get(validated_data, "phone_number", NoneS)
    IN IF ~TruthyStr(password) THEN [db |-> d, exc |-> "ValidationError", id |-> 0]
       ELSE IF role.exc # NoExc THEN [db |-> d, exc |-> role.exc, id |-> 0]
       ELSE IF role.role = 0 THEN [db |-> d, exc |-> "ValidationError", id |-> 0]
       ELSE IF industry = 0 THEN [db |-> d, exc |-> "ValidationError", id |-> 0]
       ELSE IF ~TruthyStr(phone_number)
       THEN [db |-> d, exc |-> "ValidationError", id |-> 0]
       ELSE UserSaveNew(d, [id |-> 0, phone_number |-> phone_number,
                            role |-> role.role, password |-> password,
                            is_active |-> TRUE, industry |-> industry,
                            created_by |-> creator])

\* User.objects.filter(role__name=name), the ids
UsersWithRole(d, name) ==
    {i \in 1..Len(d.users) : RoleName(d, i) = name}

\* obj.created_users.filter(role__name=name), the ids
CreatedUsers(d, obj, name) ==
    {i \in UsersWithRole(d, name) : d.users[i].created_by = obj}

\* FieldOfficerSerializer(field_officer).data: the officer and the farmers
\* they created (get_farmers, lines 310-321)
FieldOfficerData(d, obj) ==
    [id |-> obj, farmers |-> CreatedUsers(d, obj, "farmer")]

\* The sum a loop over a set of field officers adds up
RECURSIVE SumFarmers(_, _)
SumFarmers(d, officers) ==
    IF officers = {} THEN 0
    ELSE LET o == CHOOSE x \in officers : TRUE
         IN Cardinality(CreatedUsers(d, o, "farmer")) + SumFarmers(d, officers \ {o})

\* ManagerHierarchySerializer(obj).data, lines 339-375: the hierarchy fields
ManagerHierarchyData(d, obj) ==
    [id |-> obj,
     field_officers |-> {FieldOfficerData(d, o) : o \in CreatedUsers(d, obj, "fieldofficer")},
     field_officers_count |-> Cardinality(CreatedUsers(d, obj, "fieldofficer")),
     total_farmers_count |-> SumFarmers(d, CreatedUsers(d, obj, "fieldofficer"))]

\* OwnerHierarchySerializer(obj).data, lines 377-415: the hierarchy fields
OwnerHierarchyData(d, obj) ==
    [id |-> obj,
     managers |-> {ManagerHierarchyData(d, m) : m \in UsersWithRole(d, "manager")},
     managers_count |-> Cardinality(UsersWithRole(d, "manager")),
     total_field_officers |-> Cardinality(UsersWithRole(d, "fieldofficer")),
     total_farmers |-> Cardinality(UsersWithRole(d, "farmer"))]

\* The most users of the hierarchy
MaxHierUsers == 4

DigitOf == <<"1", "2", "3", "4", "5", "6", "7", "8", "9">>

\* The phone number the k-th user registers with
HierPhone(k) == <<"8", "0", "0", "0", "0", "0", "0", "0", "0">> \o <<DigitOf[k]>>

\* The owner of an industry, set up through the admin
Owner(id, industry) ==
    [id |-> id, phone_number |-> HierPhone(id), role |-> 4, password |-> Pw,
     is_active |-> TRUE, industry |-> industry, created_by |-> 0]

InitHierarchy ==
    /\ db = [SeedDb(AllRoles) EXCEPT !.users = <<Owner(1, 1), Owner(2, 2)>>]
    /\ last = NoCall
    /\ http = <<>>

\* A user creates a user through UserCreateSerializer
HierarchyCreateUser ==
    /\ Len(db.users) < MaxHierUsers
    /\ \E creator \in 1..Len(db.users), role \in {JNull, JNum(1), JNum(2), JNum(3)},
          industry \in {0} \cup Industries :
          \E r \in {UserCreateSerializerCreate(db,
                        [password |-> Pw, phone_number |-> HierPhone(Len(db.users) + 1),
                         role |-> role, industry |-> industry], creator)} :
              /\ db' = r.db
              /\ last' = [op |-> "create_user", exc |-> r.exc]
              /\ UNCHANGED http

\* An owner reads their hierarchy
ViewOwnerHierarchy ==
    \E obj \in UsersWithRole(db, "owner") :
        /\ last' = [op |-> "owner_hierarchy", user |-> obj,
                    data |-> OwnerHierarchyData(db, obj)]
        /\ UNCHANGED <<db, http>>

\* A manager reads their hierarchy
ViewManagerHierarchy ==
    \E obj \in UsersWithRole(db, "manager") :
        /\ last' = [op |-> "manager_hierarchy", user |-> obj,
                    data |-> ManagerHierarchyData(db, obj)]
        /\ UNCHANGED <<db, http>>

NextHierarchy == HierarchyCreateUser \/ ViewOwnerHierarchy \/ ViewManagerHierarchy

SpecHierarchy == InitHierarchy /\ [][NextHierarchy]_vars

\* The users a manager's hierarchy data lists
ListedUnderManager(data) ==
    {o.id : o \in data.field_officers} \cup UNION {o.farmers : o \in data.field_officers}

\* The users of an industry among ids
OfIndustry(ids, industry) == {i \in ids : db.users[i].industry = industry}

\* C12: what the owner and manager hierarchy serializers return for a user of
\* industry I lists only users of industry I, and the counts count only users
\* of industry I, whatever users the other industries have.
C12_HierarchyWithinIndustry ==
    LET I == db.users[last.user].industry
    IN /\ (last.op = "manager_hierarchy" /\ I # 0) =>
              /\ \A i \in ListedUnderManager(last.data) : db.users[i].industry = I
              /\ last.data.field_officers_count
                 = Cardinality(OfIndustry(CreatedUsers(db, last.user, "fieldofficer"), I))
       /\ (last.op = "owner_hierarchy" /\ I # 0) =>
              /\ \A m \in last.data.managers :
                     /\ db.users[m.id].industry = I
                     /\ \A i \in ListedUnderManager(m) : db.users[i].industry = I
              /\ last.data.managers_count
                 = Cardinality(OfIndustry(UsersWithRole(db, "manager"), I))
              /\ last.data.total_field_officers
                 = Cardinality(OfIndustry(UsersWithRole(db, "fieldofficer"), I))
              /\ last.data.total_farmers
                 = Cardinality(OfIndustry(UsersWithRole(db, "farmer"), I))

-----------------------------------------------------------------------------
(* users/serializers.py: UserCreateSerializer *)

\* The most users the calls create
MaxNewUsers == 1

\* The users before the calls: a manager, their field officer, an owner, a
\* user without role and a farmer, all of industry 1
StaffRoles == <<3, 2, 4, 0, 1>>
StaffDb(roles) ==
    [SeedDb(roles) EXCEPT !.users =
        [i \in 1..Len(StaffRoles) |->
            [id |-> i, phone_number |-> HierPhone(i), role |-> StaffRoles[i],
             password |-> Pw, is_active |-> TRUE, industry |-> 1,
             created_by |-> IF i = 2 THEN 1 ELSE 0]]]

\* A role table that also has a role named 'Field Officer'
RolesWithFieldOfficerName == AllRoles \cup {[id |-> 5, name |-> "Field Officer"]}

InitUserCreate ==
    /\ db \in {StaffDb(AllRoles), StaffDb(RolesWithFieldOfficerName)}
    /\ last = NoCall
    /\ http = <<>>

\* The 'role' values create is called with: none, ids and a name
CreateRoles == {JNull, JNum(0), JNum(1), JNum(9), JStr("Manager")}

\* create(validated_data) is called for a creator (0: no request)
CallCreate ==
    /\ Len(db.users) < Len(StaffRoles) + MaxNewUsers
    /\ \E creator \in 0..Len(StaffRoles), role \in CreateRoles,
          password \in {Pw, << >>}, industry \in {0, 2},
          phone_number \in {HierPhone(Len(db.users) + 1), HierPhone(1)} :
          \E r \in {UserCreateSerializerCreate(db,
                        [password |-> password, phone_number |-> phone_number,
                         role |-> role, industry |-> industry], creator)} :
              /\ db' = r.db
              /\ last' = [op |-> "create", creator |-> creator, role |-> role,
                          password |-> password, industry |-> industry,
                          phone_number |-> phone_number, before |-> db,
                          exc |-> r.exc, id |-> r.id]
              /\ UNCHANGED http

NextUserCreate == CallCreate

SpecUserCreate == InitUserCreate /\ [][NextUserCreate]_vars

\* A call of create without role whose other data is good: a password, an
\* unused phone number, and an industry supplied or the creator's
RoleLeftToCreate ==
    /\ last.op = "create"
    /\ last.role = JNull
    /\ last.password # << >>
    /\ ~PhoneTaken(last.before, last.phone_number)
    /\ last.industry # 0 \/ (last.creator # 0 /\ last.before.users[last.creator].industry # 0)

\* The role name of the creator of the last call, NoneStr without creator
CreatorRole ==
    IF last.creator = 0 THEN NoneStr ELSE RoleName(last.before, last.creator)

\* C13: create without a role gives the new user the field-officer role when
\* the creator is a manager and the farmer role when the creator is a field
\* officer; for any other creator, and without creator, it fails with the
\* validation error 'Valid role is required.' and creates no user.
C13_RoleFromCreator ==
    RoleLeftToCreate =>
        /\ CreatorRole = "manager" =>
              /\ last.exc = NoExc
              /\ Lower(RoleName(db, last.id)) \in {"fieldofficer", "field officer"}
        /\ CreatorRole = "fieldofficer" =>
              /\ last.exc = NoExc
              /\ RoleName(db, last.id) = "farmer"
        /\ CreatorRole \notin {"manager", "fieldofficer"} =>
              /\ last.exc = "ValidationError"
              /\ db = last.before

-----------------------------------------------------------------------------
(* create_all under concurrency: two calls, each in its own transaction
   (@transaction.atomic, line 172), on one database *)

\* The concurrent callers
Procs == {1, 2}

Tables == {"users", "plots", "farms", "irrigations"}

\* The database with the row versions of open transactions: writer[t][i] is
\* the transaction that inserted row i of table t (0: there before) and
\* state[t][i] tells whether the row is committed, still uncommitted ("open")
\* or rolled back ("dead"); tx[p] is the call of caller p.
ConcDb ==
    [roles |-> AllRoles, users |-> <<Officer>>, plots |-> << >>, farms |-> << >>,
     irrigations |-> << >>,
     writer |-> [t \in Tables |-> IF t = "users" THEN <<0>> ELSE << >>],
     state |-> [t \in Tables |-> IF t = "users" THEN <<"committed">> ELSE << >>],
     tx |-> [p \in Procs |-> [pc |-> "idle", exc |-> NoExc, phone_number |-> NoneS,
                              entries |-> << >>, farmer |-> 0]]]

\* The rows a call of p added to the tables of d become p's open rows
Tag(d, p) ==
    [d EXCEPT
        !.writer = [t \in Tables |->
                       @[t] \o [i \in 1..(Len(d[t]) - Len(@[t])) |-> p]],
        !.state = [t \in Tables |->
                      @[t] \o [i \in 1..(Len(d[t]) - Len(@[t])) |-> "open"]]]

\* The open rows of p get the state s
Settle(d, p, s) ==
    [d EXCEPT !.state = [t \in Tables |->
                            [i \in 1..Len(@[t]) |->
                                IF d.writer[t][i] = p /\ @[t][i] = "open" THEN s
                                ELSE @[t][i]]]]

\* The transaction of p ends with an exception but its rows stay
NoRollback(d, p, exc) ==
    [Settle(d, p, "committed") EXCEPT !.tx[p].pc = "failed", !.tx[p].exc = exc]

\* The transaction of p ends with an exception: its rows are rolled back
Rollback(d, p, exc) ==
    [Settle(d, p, "dead") EXCEPT !.tx[p].pc = "failed", !.tx[p].exc = exc]

\* The user rows with this phone number that p's statements see: committed
\* rows and p's own
VisiblePhone(d, p, phone_number) ==
    {i \in 1..Len(d.users) :
        /\ d.users[i].phone_number = phone_number
        /\ d.state.users[i] = "committed" \/ (d.writer.users[i] = p /\ d.state.users[i] = "open")}

\* The open rows of other transactions that hold this phone number in the
\* unique index of User.phone_number: an INSERT of the same number waits for
\* their transaction to end
PendingPhone(d, p, phone_number) ==
    {i \in 1..Len(d.users) :
        /\ d.users[i].phone_number = phone_number
        /\ d.writer.users[i] # p
        /\ d.state.users[i] = "open"}

InitConc ==
    /\ db = ConcDb
    /\ last = NoCall
    /\ http = <<>>

\* The payloads of the concurrent calls: one phone number, written two ways
ConcPayloads ==
    {[farmer |-> [phone_number |-> ph], plots |-> l] :
        ph \in {PhoneA, PhoneA91},
        l \in {<<[plot |-> PlotA, farm |-> FarmA, irrigation |-> IrrA]>>,
               <<[plot |-> PlotB, farm |-> FarmA, irrigation |-> None],
                 [plot |-> PlotA, farm |-> None, irrigation |-> IrrA]>>,
               <<[plot |-> PlotB, farm |-> FarmA, irrigation |-> IrrA],
                 [plot |-> None, farm |-> FarmA, irrigation |-> None]>>}}

\* create_all starts, lines 199-213 and User.save up to full_clean: the role,
\* the phone number, clean and the uniqueness check of full_clean
TxBegin(p) ==
    /\ db.tx[p].pc = "idle"
    /\ \E data \in ConcPayloads :
          LET phone_number == Get(data.farmer, "phone_number", NoneS)
              c == UserClean(Strip(phone_number))
          IN /\ db' = IF ~TruthyStr(phone_number) THEN Rollback(db, p, "ValueError")
                      ELSE IF c.exc # NoExc THEN Rollback(db, p, c.exc)
                      ELSE IF VisiblePhone(db, p, c.phone) # {}
                      THEN Rollback(db, p, "ValidationError")
                      ELSE [db EXCEPT !.tx[p] = [pc |-> "insert", exc |-> NoExc,
                                                 phone_number |-> c.phone,
                                                 entries |-> EffectivePlots(data),
                                                 farmer |-> 0]]
             /\ last' = [op |-> "begin", p |-> p]
             /\ UNCHANGED http

\* User.save: the INSERT of the farmer.  It waits while another transaction
\* holds the phone number uncommitted, and fails on a committed one.
TxInsertUser(p) ==
    /\ db.tx[p].pc = "insert"
    /\ PendingPhone(db, p, db.tx[p].phone_number) = {}
    /\ db' = IF VisiblePhone(db, p, db.tx[p].phone_number) # {}
             THEN Rollback(db, p, "IntegrityError")
             ELSE LET row == [id |-> Len(db.users) + 1,
                              phone_number |-> db.tx[p].phone_number, role |-> 1,
                              password |-> Pw, is_active |-> TRUE, industry |-> 0,
                              created_by |-> 0]
                  IN Tag([db EXCEPT !.users = Append(@, row),
                                    !.tx[p].pc = "entries",
                                    !.tx[p].farmer = Len(db.users) + 1], p)
    /\ last' = [op |-> "insert_user", p |-> p]
    /\ UNCHANGED http

\* One round of the loop over the plot entries, lines 248-472
TxEntry(p) ==
    /\ db.tx[p].pc = "entries"
    /\ db.tx[p].entries # << >>
    /\ \E r \in {ProcessEntry(db, Head(db.tx[p].entries), db.tx[p].farmer, Officer.id,
                              [plots |-> << >>, farms |-> << >>, irrigations |-> << >>])} :
          db' = IF r.exc # NoExc THEN Rollback(Tag(r.db, p), p, r.exc)
                ELSE Tag([r.db EXCEPT !.tx[p].entries = Tail(@)], p)
    /\ last' = [op |-> "entry", p |-> p]
    /\ UNCHANGED http

\* create_all returns and the transaction commits
TxCommit(p) ==
    /\ db.tx[p].pc = "entries"
    /\ db.tx[p].entries = << >>
    /\ db' = [Settle(db, p, "committed") EXCEPT !.tx[p].pc = "done"]
    /\ last' = [op |-> "commit", p |-> p]
    /\ UNCHANGED http

NextConc == \E p \in Procs : TxBegin(p) \/ TxInsertUser(p) \/ TxEntry(p) \/ TxCommit(p)

SpecConc == InitConc /\ [][NextConc]_vars

\* The committed rows of table t that transaction p wrote
CommittedBy(t, p) ==
    {i \in 1..Len(db[t]) : db.writer[t][i] = p /\ db.state[t][i] = "committed"}

Committed(t) == {i \in 1..Len(db[t]) : db.state[t][i] = "committed"}

\* C14: of two concurrent create_all calls with the same phone number, in any
\* interleaving, at most one commits a farmer; a call that failed has
\* committed no user, plot, farm or irrigation; and every committed plot and
\* farm belongs to a committed farmer (every committed farm to a committed
\* plot, every committed irrigation to a committed farm).
C14_ConcurrentAtomicity ==
    /\ Cardinality({p \in Procs : CommittedBy("users", p) # {}}) <= 1
    /\ \A p \in Procs :
          db.tx[p].pc = "failed" => \A t \in Tables : CommittedBy(t, p) = {}
    /\ \A i \in Committed("plots") : db.plots[i].farmer \in Committed("users")
    /\ \A i \in Committed("farms") :
          /\ db.farms[i].farm_owner \in Committed("users")
          /\ db.farms[i].plot \in Committed("plots")
    /\ \A i \in Committed("irrigations") : db.irrigations[i].farm \in Committed("farms")

\* Both calls passed the uniqueness check of full_clean; one committed its
\* farmer with a plot and a farm, the other waited and failed on the unique
\* index
C14_Witness ==
    \E p, q \in Procs :
        /\ db.tx[p].pc = "done"
        /\ CommittedBy("users", p) # {}
        /\ CommittedBy("plots", p) # {}
        /\ CommittedBy("farms", p) # {}
        /\ db.tx[q].pc = "failed"
        /\ db.tx[q].exc = "IntegrityError"

-----------------------------------------------------------------------------
(* C18: users/models.py, User.save *)

MaxSavedUsers == 1      \* users saved besides the seeded one

\* update_fields=None
NoneFields == {"<None>"}

\* The columns a save is asked to update
UpdateFieldsGiven == {{"phone_number"}, {"is_active"}, {"phone_number", "is_active"}}

\* The unique index of phone_number, for the row with this id
PhoneTakenByOther(d, p, id) ==
    p # NoneS /\ \E i \in 1..Len(d.users) : i # id /\ d.users[i].phone_number = p

\* User.save(update_fields=...) of the instance u of a stored row, lines
\* 156-176: normalise the phone number, full_clean unless update_fields is
\* given, then write the row, or only the columns of update_fields.  [db, exc]
UserSave(d, u, update_fields) ==
    LET p1 == PhoneBlankToNone(u.phone_number)
        p2 == IF TruthyStr(p1) THEN DropCountryCode(StripNonDigits(p1)) ELSE p1
    IN IF update_fields = NoneFields
       THEN LET c == UserClean(p2)
            IN IF c.exc # NoExc THEN [db |-> d, exc |-> c.exc]
               ELSE IF PhoneTakenByOther(d, c.phone, u.id)
               THEN [db |-> d, exc |-> "ValidationError"]
               ELSE [db |-> [d EXCEPT !.users[u.id] = [u EXCEPT !.phone_number = c.phone]],
                     exc |-> NoExc]
       ELSE IF "phone_number" \in update_fields /\ PhoneTakenByOther(d, p2, u.id)
       THEN [db |-> d, exc |-> "IntegrityError"]
       ELSE [db |-> [d EXCEPT !.users[u.id] =
                        [f \in DOMAIN @ |->
                            IF f \notin update_fields THEN @[f]
                            ELSE IF f = "phone_number" THEN p2
                            ELSE u[f]]],
             exc |-> NoExc]

PhoneBlank == <<" ", " ">>
PhoneLetters == <<"a", "b", "c">>
PhoneB91 == <<"9", "1", "8", "0", "0", "0", "0", "0", "0", "0", "0", "2">>

\* The values assigned to phone_number before a save
PhoneInputs ==
    {NoneS, << >>, PhoneBlank, PhoneLetters, PhoneShort, PhoneA, PhoneA91, PhoneB91}

InitPhone ==
    /\ db = SeedDb(AllRoles)
    /\ last = NoCall
    /\ http = <<>>

\* User(phone_number=...).save()
SaveNewUser ==
    /\ Len(db.users) < MaxSavedUsers + 1
    /\ \E phone_number \in PhoneInputs :
          \E r \in {UserSaveNew(db, [id |-> 0, phone_number |-> phone_number, role |-> 1,
                                     password |-> Pw, is_active |-> TRUE, industry |-> 0,
                                     created_by |-> 0])} :
              /\ db' = r.db
              /\ last' = [op |-> "save_new", id |-> r.id, phone_number |-> phone_number,
                          update_fields |-> NoneFields, exc |-> r.exc]
              /\ UNCHANGED http

\* user.phone_number = ...; user.is_active = ...; user.save()
SaveFull ==
    \E id \in 1..Len(db.users), phone_number \in PhoneInputs, is_active \in BOOLEAN :
        \E r \in {UserSave(db, [db.users[id] EXCEPT !.phone_number = phone_number,
                                                   !.is_active = is_active],
                           NoneFields)} :
            /\ db' = r.db
            /\ last' = [op |-> "save", id |-> id, phone_number |-> phone_number,
                        update_fields |-> NoneFields, exc |-> r.exc]
            /\ UNCHANGED http

\* user.phone_number = ...; user.is_active = ...; user.save(update_fields=[...])
SavePartial ==
    \E id \in 1..Len(db.users), phone_number \in PhoneInputs, is_active \in BOOLEAN,
       update_fields \in UpdateFieldsGiven :
        \E r \in {UserSave(db, [db.users[id] EXCEPT !.phone_number = phone_number,
                                                   !.is_active = is_active],
                           update_fields)} :
            /\ db' = r.db
            /\ last' = [op |-> "save", id |-> id, phone_number |-> phone_number,
                        update_fields |-> update_fields, exc |-> r.exc]
            /\ UNCHANGED http

NextPhone == SaveNewUser \/ SaveFull \/ SavePartial

SpecPhone == InitPhone /\ [][NextPhone]_vars

\* None, or exactly ten digits
TenDigitsOrNone(p) ==
    p = NoneS \/ (Len(p) = 10 /\ \A i \in 1..10 : p[i] \in DigitChars)

\* The save wrote the phone number column of its row
WrotePhone ==
    /\ last.op \in {"save_new", "save"}
    /\ last.exc = NoExc
    /\ last.update_fields = NoneFields \/ "phone_number" \in last.update_fields

\* C18: after any sequence of full and partial User.save calls the stored
\* phone_number of every user is None or exactly ten digits; a blank or
\* whitespace-only value is stored as None and a 12-digit value that starts
\* with 91 is stored without the 91.
C18_StoredPhoneTenDigits ==
    /\ \A i \in 1..Len(db.users) : TenDigitsOrNone(db.users[i].phone_number)
    /\ (WrotePhone /\ last.phone_number \in {<< >>, PhoneBlank}) =>
          db.users[last.id].phone_number = NoneS
    /\ (WrotePhone /\ last.phone_number = PhoneB91) =>
          db.users[last.id].phone_number = SubSeq(PhoneB91, 3, 12)

-----------------------------------------------------------------------------
(* C19: the four phone number normalisations *)

\* UserCreateSerializer.validate_phone_number(value), lines 432-444: [exc, value]
UserCreateValidatePhoneNumber(d, value) ==
    IF TruthyStr(value)
    THEN LET cleaned_phone == DropCountryCode(StripNonDigits(value))
         IN IF Len(cleaned_phone) # 10
            THEN [exc |-> "ValidationError", value |-> value]
            ELSE IF PhoneTaken(d, cleaned_phone)
            THEN [exc |-> "ValidationError", value |-> value]
            ELSE [exc |-> NoExc, value |-> cleaned_phone]
    ELSE [exc |-> "ValidationError", value |-> value]

\* SimpleUserSerializer.validate_phone_number(value), lines 760-780: [exc, value]
SimpleUserValidatePhoneNumber(d, value) ==
    IF TruthyStr(value)
    THEN LET cleaned_phone == DropCountryCode(StripNonDigits(value))
         IN IF Len(cleaned_phone) # 10
            THEN [exc |-> "ValidationError", value |-> value]
            ELSE IF PhoneTaken(d, cleaned_phone)
            THEN [exc |-> "ValidationError", value |-> value]
            ELSE [exc |-> NoExc, value |-> cleaned_phone]
    ELSE [exc |-> "ValidationError", value |-> value]

\* User.clean on an instance with this phone_number, as [exc, value]
UserCleanPhoneNumber(value) ==
    [exc |-> UserClean(value).exc, value |-> UserClean(value).phone]

\* The four normalisations of one value
Normalisations(d, value) ==
    [clean |-> UserCleanPhoneNumber(value),
     create |-> UserCreateValidatePhoneNumber(d, value),
     simple |-> SimpleUserValidatePhoneNumber(d, value),
     token |-> TokenValidatePhoneNumber(value)]

MaxNormUsers == 1       \* users registered besides the seeded one

PhonePrefixes == {<< >>, <<"+">>, <<"9", "1">>, <<"+", "9", "1", " ">>, <<" ">>}
PhoneBodies ==
    {<< >>, PhoneShort, PhoneA, PhoneOfficer, PhoneInactive, <<"0">> \o PhoneA}
PhoneSuffixes == {<< >>, <<" ">>}

\* The strings submitted as phone number
PhoneStrings ==
    {pre \o body \o suf : pre \in PhonePrefixes, body \in PhoneBodies,
                          suf \in PhoneSuffixes}

InitNormalize ==
    /\ db = SeedDb(AllRoles)
    /\ last = NoCall
    /\ http = <<>>

\* A user is saved with this phone number
RegisterPhone ==
    /\ Len(db.users) < MaxNormUsers + 1
    /\ \E value \in PhoneStrings :
          \E r \in {CreateUser(db, value, 1)} :
              /\ db' = r.db
              /\ last' = [op |-> "register", value |-> value, exc |-> r.exc, id |-> r.id]
              /\ UNCHANGED http

\* The four normalisations are applied to the same string, and again to what
\* each of them returned
NormalizePhone ==
    \E value \in PhoneStrings :
        \E n \in {Normalisations(db, value)} :
            /\ last' = [op |-> "normalize", value |-> value, first |-> n,
                        again |-> [clean |-> UserCleanPhoneNumber(n.clean.value),
                                   create |-> UserCreateValidatePhoneNumber(db, n.create.value),
                                   simple |-> SimpleUserValidatePhoneNumber(db, n.simple.value),
                                   token |-> TokenValidatePhoneNumber(n.token.value)]]
            /\ UNCHANGED <<db, http>>

NextNormalize == RegisterPhone \/ NormalizePhone

SpecNormalize == InitNormalize /\ [][NextNormalize]_vars

\* Strip non-digits, drop a leading 91 when 12 digits remain
Normalised(value) ==
    LET digits == StripNonDigits(value)
    IN IF Len(digits) = 12 /\ SubSeq(digits, 1, 2) = <<"9", "1">>
       THEN SubSeq(digits, 3, 12) ELSE digits

\* All four reject, or all four return the same ten digits, and return them
\* again when applied to them
FourAgree ==
    LET n == last.first
    IN /\ n.create = n.clean /\ n.simple = n.clean /\ n.token = n.clean
       /\ n.clean.exc = NoExc =>
             /\ n.clean.value = Normalised(last.value)
             /\ Len(n.clean.value) = 10
             /\ last.again = n

-----------------------------------------------------------------------------
(* C20: users/serializers.py, UserCreateSerializer as a whole *)

\* Meta.fields, lines 426-430: the fields the serializer declares
DeclaredFields ==
    {"phone_number", "email", "password", "first_name", "last_name", "address",
     "village", "taluka", "district", "state", "profile_picture", "role_id",
     "industry"}

\* to_internal_value of rest_framework.serializers.Serializer: every declared
\* field present in the request is validated (the field itself, then
\* validate_<field>), and only declared fields enter the validated data.
\* password = CharField(write_only=True), line 418, is required and not blank.
\* [exc, data]
UserCreateToInternalValue(d, request_data) ==
    LET phone == IF "phone_number" \in DOMAIN request_data
                 THEN UserCreateValidatePhoneNumber(d, request_data["phone_number"])
                 ELSE [exc |-> NoExc, value |-> NoneS]
    IN IF "password" \notin DOMAIN request_data \/ Strip(request_data["password"]) = << >>
       THEN [exc |-> "ValidationError", data |-> EmptyDict]
       ELSE IF phone.exc # NoExc
       THEN [exc |-> "ValidationError", data |-> EmptyDict]
       ELSE [exc |-> NoExc,
             data |-> [k \in DOMAIN request_data \cap DeclaredFields |->
                          IF k = "phone_number" THEN phone.value
                          ELSE IF k = "password" THEN Strip(request_data[k])
                          ELSE request_data[k]]]

\* UserCreateSerializer.validate(data), lines 610-619, data the validated
\* data: the exception
UserCreateValidate(data) ==
    LET password == Get(data, "password", NoneS)
        password_confirmation == Get(data, "password_confirmation", NoneS)
    IN IF ~TruthyStr(password) THEN "ValidationError"
       ELSE IF password # password_confirmation THEN "ValidationError"
       ELSE NoExc

\* serializer.is_valid(): [exc, data]
UserCreateIsValid(d, request_data) ==
    LET internal == UserCreateToInternalValue(d, request_data)
    IN IF internal.exc # NoExc THEN internal
       ELSE [exc |-> UserCreateValidate(internal.data),
             data |-> internal.data]

\* The request bodies: password and password_confirmation absent, blank, or
\* one of two values, with a phone number that is free or in use
SubmitRequests(d) ==
    {pw @@ conf @@ [phone_number |-> ph] :
        pw \in {EmptyDict} \cup {[password |-> v] : v \in {<< >>, Pw, BadPw}},
        conf \in {EmptyDict}
                 \cup {[password_confirmation |-> v] : v \in {<< >>, Pw, BadPw}},
        ph \in {HierPhone(Len(d.users) + 1), HierPhone(1)}}

InitSubmit ==
    /\ db \in {StaffDb(AllRoles), StaffDb(RolesWithFieldOfficerName)}
    /\ last = NoCall
    /\ http = <<>>

\* A request is submitted by a user: is_valid(), and create when it is valid
SubmitUser ==
    /\ Len(db.users) < Len(StaffRoles) + MaxNewUsers
    /\ \E creator \in 1..Len(StaffRoles), request_data \in SubmitRequests(db) :
          \E v \in {UserCreateIsValid(db, request_data)} :
              \E r \in {IF v.exc = NoExc THEN UserCreateSerializerCreate(db, v.data, creator)
                        ELSE [db |-> db, exc |-> v.exc, id |-> 0]} :
                  /\ db' = r.db
                  /\ last' = [op |-> "submit", creator |-> creator,
                              request_data |-> request_data, before |-> db,
                              valid |-> v.exc = NoExc, exc |-> r.exc, id |-> r.id]
                  /\ UNCHANGED http

NextSubmit == SubmitUser

SpecSubmit == InitSubmit /\ [][NextSubmit]_vars

\* The field validators pass: the phone number is valid and free
FieldValidatorsPass ==
    UserCreateValidatePhoneNumber(last.before, last.request_data.phone_number).exc = NoExc

\* The submitted password is non-blank and equals the submitted confirmation
PasswordsMatch ==
    /\ "password" \in DOMAIN last.request_data
    /\ Strip(last.request_data.password) # << >>
    /\ "password_confirmation" \in DOMAIN last.request_data
    /\ last.request_data.password = last.request_data.password_confirmation

\* C20: UserCreateSerializer accepts a submission whose field validators pass
\* exactly when the password is non-blank and equal to the submitted
\* password_confirmation: a matching request passes validate and reaches
\* create, a blank password or a different confirmation is rejected with a
\* validation error.
C20_AcceptsMatchingPasswords ==
    (last.op = "submit" /\ FieldValidatorsPass) =>
        /\ last.valid <=> PasswordsMatch
        /\ ~last.valid => (last.exc = "ValidationError" /\ db = last.before)

-----------------------------------------------------------------------------
(* C21: users/serializers.py, UserCreateSerializer.validate_role_id *)

\* value.strip() and value.lower() of the strings submitted as role_id
StripLower(name) ==
    CASE name = " 3 " -> "3"
      [] name = "Field_Officer" -> "field_officer"
      [] name = "Manager" -> "manager"
      [] name = "None" -> "none"
      [] name = "  " -> ""
      [] OTHER -> name

\* role_name_mapping, lines 467-474
RoleNameMapping ==
    ("farmer" :> 1) @@ ("fieldofficer" :> 2) @@ ("field_officer" :> 2)
    @@ ("field-officer" :> 2) @@ ("manager" :> 3) @@ ("owner" :> 4)

\* The strings int() reads
IntStrings == ("0" :> 0) @@ ("1" :> 1) @@ ("2" :> 2) @@ ("3" :> 3) @@ ("9" :> 9)

\* validate_role_id(value), lines 446-515: [exc, value], value the role id as
\* JNum or JNull for None
ValidateRoleId(d, value) ==
    IF value = JNull \/ value \in {JStr(""), JStr("null"), JStr("undefined")}
    THEN [exc |-> NoExc, value |-> JNull]
    ELSE IF JType(value) = "str" /\ StripLower(value.str) \in {"", "null", "undefined", "none"}
    THEN [exc |-> NoExc, value |-> JNull]
    ELSE IF value = JNum(0) \/ (JType(value) = "str" /\ StripLower(value.str) = "0")
    THEN [exc |-> NoExc, value |-> JNull]
    ELSE LET id == IF JType(value) = "num" THEN value.num
                   ELSE IF StripLower(value.str) \in DOMAIN RoleNameMapping
                   THEN RoleNameMapping[StripLower(value.str)]
                   ELSE IF StripLower(value.str) \in DOMAIN IntStrings
                   THEN IntStrings[StripLower(value.str)]
                   ELSE -1
         IN IF id = -1 THEN [exc |-> "ValidationError", value |-> JNull]
            ELSE IF \E r \in d.roles : r.id = id
            THEN [exc |-> NoExc, value |-> JNum(id)]
            ELSE [exc |-> "ValidationError", value |-> JNull]

\* The role_id values submitted: blank values, ids, numeric strings, names
RoleIdValues ==
    {JNull, JStr(""), JStr("  "), JStr("null"), JStr("undefined"), JStr("None"),
     JNum(0), JStr("0"), JNum(1), JNum(3), JNum(9), JStr("2"), JStr(" 3 "), JStr("9"),
     JStr("farmer"), JStr("fieldofficer"), JStr("Field_Officer"),
     JStr("field-officer"), JStr("Manager"), JStr("owner"), JStr("abc")}

InitRole ==
    /\ db \in {StaffDb(AllRoles), StaffDb(RolesWithFieldOfficerName)}
    /\ last = NoCall
    /\ http = <<>>

\* A user submits role_id with a password and a free phone number: the field
\* is validated and create is called with the validated data, which holds the
\* value under the name of the field, role_id
SubmitRoleId ==
    /\ Len(db.users) < Len(StaffRoles) + MaxNewUsers
    /\ \E creator \in 1..Len(StaffRoles), value \in RoleIdValues :
          \E v \in {ValidateRoleId(db, value)} :
              \E r \in {IF v.exc # NoExc THEN [db |-> db, exc |-> v.exc, id |-> 0]
                        ELSE UserCreateSerializerCreate(db,
                                 [password |-> Pw,
                                  phone_number |-> HierPhone(Len(db.users) + 1),
                                  role_id |-> v.value], creator)} :
                  /\ db' = r.db
                  /\ last' = [op |-> "submit_role_id", creator |-> creator,
                              value |-> value, validated |-> v, before |-> db,
                              exc |-> r.exc, id |-> r.id]
                  /\ UNCHANGED http

NextRole == SubmitRoleId

SpecRole == InitRole /\ [][NextRole]_vars

\* The values for which validate_role_id is to return None
BlankRoleIds ==
    {JNull, JStr(""), JStr("  "), JStr("null"), JStr("undefined"), JNum(0), JStr("0")}

\* The role id a value stands for, 0 when it stands for none
NamedRole(value) ==
    CASE value \in {JNum(1), JStr("farmer")} -> 1
      [] value \in {JStr("2"), JStr("fieldofficer"), JStr("Field_Officer"),
                    JStr("field-officer")} -> 2
      [] value \in {JNum(3), JStr(" 3 "), JStr("Manager")} -> 3
      [] value = JStr("owner") -> 4
      [] OTHER -> 0

\* validate_role_id returns None for the blank values, the id of the role for
\* an id or a name, and rejects every other value
RoleIdValidated ==
    last.op = "submit_role_id" =>
        IF last.value \in BlankRoleIds
        THEN last.validated = [exc |-> NoExc, value |-> JNull]
        ELSE IF NamedRole(last.value) # 0
        THEN last.validated = [exc |-> NoExc, value |-> JNum(NamedRole(last.value))]
        ELSE last.validated.exc = "ValidationError"

\* The created user has the role that was submitted
RoleIdHonoured ==
    (last.op = "submit_role_id" /\ NamedRole(last.value) # 0) =>
        /\ last.exc = NoExc
        /\ db.users[last.id].role = NamedRole(last.value)

\* C21: role_id accepts a role id (integer or numeric string) or a role name;
\* validate_role_id returns the id of an existing role, or None for a blank
\* value, 'null', 'undefined' or 0, and rejects every other value; and the user
\* created by create has the role with that id, not a role derived from the
\* creator.
C21_RoleIdHonoured == RoleIdValidated /\ RoleIdHonoured

-----------------------------------------------------------------------------
(* C22: users/serializers.py, UserCreateSerializer: industry *)

\* industry = PrimaryKeyRelatedField(queryset=Industry.objects.all(),
\* required=False), line 422, then validate_industry(value), lines 523-534.
\* The field turns the primary key into the Industry instance before the
\* method sees it; the method keeps an Industry instance and returns None for
\* anything else.  [exc, present, value], value the id of the instance, 0 for
\* None
IndustryToInternalValue(request_data) ==
    IF "industry" \notin DOMAIN request_data
    THEN [exc |-> NoExc, present |-> FALSE, value |-> 0]
    ELSE IF request_data["industry"] \in Industries
    THEN [exc |-> NoExc, present |-> TRUE, value |-> request_data["industry"]]
    ELSE \* no Industry with this primary key
         [exc |-> "ValidationError", present |-> FALSE, value |-> 0]

\* The staff of StaffDb, the manager and their field officer in this industry
\* (0: none)
StaffDbOfIndustry(industry) ==
    [StaffDb(RolesWithFieldOfficerName) EXCEPT !.users[1].industry = industry,
                                               !.users[2].industry = industry]

InitIndustry ==
    /\ db \in {StaffDbOfIndustry(k) : k \in {0} \cup Industries}
    /\ last = NoCall
    /\ http = <<>>

\* A user submits a new user with or without an industry: the field is
\* validated and create is called with the validated data
SubmitIndustry ==
    /\ Len(db.users) < Len(StaffRoles) + MaxNewUsers
    /\ \E creator \in 1..Len(StaffRoles),
          request_data \in {EmptyDict} \cup {[industry |-> k] : k \in Industries \cup {9}},
          phone_number \in {HierPhone(Len(db.users) + 1), HierPhone(1)} :
          \E v \in {IndustryToInternalValue(request_data)} :
              \E r \in {IF v.exc # NoExc THEN [db |-> db, exc |-> v.exc, id |-> 0]
                        ELSE UserCreateSerializerCreate(db,
                                 [password |-> Pw, phone_number |-> phone_number]
                                 @@ (IF v.present THEN [industry |-> v.value]
                                     ELSE EmptyDict), creator)} :
                  /\ db' = r.db
                  /\ last' = [op |-> "submit_industry", creator |-> creator,
                              request_data |-> request_data,
                              phone_number |-> phone_number, before |-> db,
                              exc |-> r.exc, id |-> r.id]
                  /\ UNCHANGED http

NextIndustry == SubmitIndustry

SpecIndustry == InitIndustry /\ [][NextIndustry]_vars

\* C22: the industry of a user created through UserCreateSerializer is the
\* creator's industry whatever industry the request carries; when the creator
\* has no industry the creation fails with a validation error and stores
\* nothing, so every user created this way has an industry.
C22_IndustryFromCreator ==
    last.op = "submit_industry" =>
        /\ last.exc = NoExc =>
              /\ db.users[last.id].industry # 0
              /\ db.users[last.id].industry = last.before.users[last.creator].industry
        /\ last.before.users[last.creator].industry = 0 =>
              /\ last.exc # NoExc
              /\ db = last.before

-----------------------------------------------------------------------------
(* C23: users/admin.py, farms/admin.py: save_model *)

\* save_model that sets the industry on every save
SaveModelOnEverySave(user, obj, change) ==
    IF obj.industry = 0 /\ user.industry # 0
    THEN [obj EXCEPT !.industry = user.industry]
    ELSE obj

\* FarmAdmin.save_model, farms/admin.py lines 256-260: the object handed to
\* super().save_model
FarmAdminSaveModel(user, obj, change) ==
    IF ~change /\ obj.industry = 0
    THEN IF user.industry # 0 THEN [obj EXCEPT !.industry = user.industry] ELSE obj
    ELSE obj

\* PlotAdmin.save_model, farms/admin.py lines 312-316
PlotAdminSaveModel(user, obj, change) ==
    IF ~change /\ obj.industry = 0
    THEN IF user.industry # 0 THEN [obj EXCEPT !.industry = user.industry] ELSE obj
    ELSE obj

\* admin.save_model(request, obj, form, change) of an admin class
SaveModelOf(admin, user, obj, change) ==
    IF admin = "FarmAdmin" THEN FarmAdminSaveModel(user, obj, change)
    ELSE IF admin = "PlotAdmin" THEN PlotAdminSaveModel(user, obj, change)
    ELSE SaveModel(user, obj, change)

\* The add view: the form builds a new object, save_model stores it
SaveAdded ==
    \E admin \in IndustryAdmins, user \in AdminUsers, industry \in {0} \cup Industries :
        /\ AdminRowCount(db) < MaxAdminRows
        /\ \E obj \in {[id |-> Len(db[admin]) + 1, industry |-> industry]} :
              \E saved \in {SaveModelOf(admin, user, obj, FALSE)} :
                  /\ db' = [db EXCEPT ![admin] = Append(@, saved)]
                  /\ last' = [op |-> "save_model", admin |-> admin, user |-> user,
                              change |-> FALSE, obj |-> obj, saved |-> saved]
                  /\ UNCHANGED http

\* The change view: the form updates an object of the user's change list,
\* save_model stores it
SaveChanged ==
    \E admin \in IndustryAdmins, user \in AdminUsers, industry \in {0} \cup Industries :
        \E i \in 1..Len(db[admin]) :
            /\ \E j \in 1..Len(GetQueryset(admin, db[admin], user)) :
                   GetQueryset(admin, db[admin], user)[j] = db[admin][i]
            /\ \E obj \in {[db[admin][i] EXCEPT !.industry = industry]} :
                  \E saved \in {SaveModelOf(admin, user, obj, TRUE)} :
                      /\ db' = [db EXCEPT ![admin][i] = saved]
                      /\ last' = [op |-> "save_model", admin |-> admin, user |-> user,
                                  change |-> TRUE, obj |-> obj, saved |-> saved]
                      /\ UNCHANGED http

NextSaveModel == SaveAdded \/ SaveChanged

SpecSaveModel == InitAdmin /\ [][NextSaveModel]_vars

\* C23: save_model of the industry-filtered admins sets the industry only on
\* creation: when change is False, the object has no industry and the user has
\* one, the saved object has the user's industry; when change is True, or the
\* object has an industry, or the user has none, the saved object's industry
\* is the one it came with.  Nothing else of the object changes.
C23_IndustryOnlyOnCreation ==
    last.op = "save_model" =>
        /\ last.saved.industry =
              IF ~last.change /\ last.obj.industry = 0 /\ last.user.industry # 0
              THEN last.user.industry
              ELSE last.obj.industry
        /\ last.saved.id = last.obj.id
        /\ db[last.admin][last.obj.id] = last.saved

\* A plot added without industry by a user of industry 2 was saved in 2
C23_Witness ==
    /\ last.op = "save_model"
    /\ last.admin = "PlotAdmin"
    /\ ~last.change
    /\ last.obj.industry = 0
    /\ last.user.industry = 2
    /\ db["PlotAdmin"][last.obj.id].industry = 2

-----------------------------------------------------------------------------
(* C24: farms/serializers.py, PlotSerializer.validate on update *)

\* The save that follows a valid PUT: the fields of the stored plot are set
\* from the request
PerformUpdate(d, plot, attrs) ==
    [d EXCEPT !.plots[plot] =
        [f \in DOMAIN @ |-> IF f \in DOMAIN attrs THEN attrs[f] ELSE @[f]]]

\* PUT to the plot endpoint by a user of the database: the serializer is
\* built on the stored plot and validate runs on the submitted fields
ApiUpdatePlot ==
    \E user \in 1..Len(db.users), plot \in 1..Len(db.plots), attrs \in ApiPlots :
        \E exc \in {PlotSerializerValidate(db, user, attrs)} :
            /\ db' = IF exc = NoExc THEN PerformUpdate(db, plot, attrs) ELSE db
            /\ last' = [op |-> "plot_update", exc |-> exc, before |-> db,
                        user |-> user, attrs |-> attrs, plot |-> plot]
            /\ UNCHANGED http

NextPlotUpdate == ApiCreatePlot \/ RegisterWithPlots \/ ApiUpdatePlot

SpecPlotUpdate == InitPlots /\ [][NextPlotUpdate]_vars

\* The five identifying fields of the request and of a stored plot are equal
SameIdentity(attrs, row) ==
    \A f \in {"gat_number", "plot_number", "village", "taluka", "district"} :
        attrs[f] = row[f]

\* A new plot whose identifying fields equal those of a stored plot is
\* rejected
DuplicateRejected ==
    (/\ last.op = "plot_api"
     /\ \E i \in 1..Len(last.before.plots) : SameIdentity(last.attrs, last.before.plots[i]))
        => last.exc = "ValidationError" /\ db = last.before

\* An update of a plot that keeps its identifying fields is accepted
OwnFieldsAccepted ==
    (/\ last.op = "plot_update"
     /\ SameIdentity(last.attrs, last.before.plots[last.plot]))
        => last.exc = NoExc

\* C24: PlotSerializer.validate rejects a plot whose gat_number, plot_number,
\* village, taluka and district equal those of a stored plot, and accepts the
\* update of a stored plot that keeps its own identifying fields.
C24_UpdateKeepsOwnFields == DuplicateRejected /\ OwnFieldsAccepted

-----------------------------------------------------------------------------
(* C25: users/admin.py, IndustryAdmin.industry_data_view *)

MaxViewRows == 2        \* plots and farms stored

NoContext == [owners |-> {}, managers |-> {}, field_officers |-> {}, farmers |-> {},
              plots |-> {}, farms |-> {}]

\* User.objects.filter(industry=industry, role__name=name), the ids
UsersOfIndustryWithRole(d, industry, name) ==
    {u \in 1..Len(d.users) : d.users[u].industry = industry /\ RoleName(d, u) = name}

\* The context of lines 113-138 for an industry
IndustryContext(d, industry) ==
    [owners |-> UsersOfIndustryWithRole(d, industry, "owner"),
     managers |-> UsersOfIndustryWithRole(d, industry, "manager"),
     field_officers |-> UsersOfIndustryWithRole(d, industry, "fieldofficer"),
     farmers |-> UsersOfIndustryWithRole(d, industry, "farmer"),
     plots |-> {p \in 1..Len(d.plots) : d.plots[p].industry = industry},
     farms |-> {f \in 1..Len(d.farms) : d.farms[f].industry = industry}]

\* The view open to every owner, whatever their industry
IndustryDataViewAnyOwner(d, user, industry_id) ==
    IF ~d.users[user].is_superuser /\ RoleName(d, user) # "owner"
    THEN [status |-> "forbidden", context |-> NoContext]
    ELSE IF industry_id \notin Industries
    THEN [status |-> "not_found", context |-> NoContext]
    ELSE [status |-> "ok", context |-> IndustryContext(d, industry_id)]

\* industry_data_view(request, industry_id), lines 101-138, for request.user a
\* staff user (admin_site.admin_view lets no other in): [status, context]
IndustryDataView(d, user, industry_id) ==
    IF ~d.users[user].is_superuser
       /\ ~(/\ d.users[user].role # 0
            /\ RoleName(d, user) = "owner"
            /\ d.users[user].industry # 0
            /\ d.users[user].industry = industry_id)
    THEN [status |-> "forbidden", context |-> NoContext]
    ELSE IF industry_id \notin Industries
    THEN \* get_object_or_404
         [status |-> "not_found", context |-> NoContext]
    ELSE [status |-> "ok", context |-> IndustryContext(d, industry_id)]

\* The staff users: a superuser, owners of industry 1, of industry 2 and of
\* none, a manager, a field officer and a farmer of industry 1, a user without
\* role
InitView ==
    /\ db = [roles |-> AllRoles,
             users |-> << [id |-> 1, role |-> 0, industry |-> 0, is_superuser |-> TRUE],
                          [id |-> 2, role |-> 4, industry |-> 1, is_superuser |-> FALSE],
                          [id |-> 3, role |-> 4, industry |-> 2, is_superuser |-> FALSE],
                          [id |-> 4, role |-> 4, industry |-> 0, is_superuser |-> FALSE],
                          [id |-> 5, role |-> 3, industry |-> 1, is_superuser |-> FALSE],
                          [id |-> 6, role |-> 2, industry |-> 1, is_superuser |-> FALSE],
                          [id |-> 7, role |-> 1, industry |-> 1, is_superuser |-> FALSE],
                          [id |-> 8, role |-> 0, industry |-> 1, is_superuser |-> FALSE] >>,
             plots |-> << >>, farms |-> << >>]
    /\ last = NoCall
    /\ http = <<>>

\* A plot or a farm of an industry, or of none, is stored
StoreRecord ==
    /\ Len(db.plots) + Len(db.farms) < MaxViewRows
    /\ \E t \in {"plots", "farms"}, industry \in {0} \cup Industries :
          /\ db' = [db EXCEPT ![t] = Append(@, [id |-> Len(@) + 1, industry |-> industry])]
          /\ last' = [op |-> "store"]
          /\ UNCHANGED http

\* A staff user requests the data view of an industry id
ViewIndustryData ==
    \E user \in 1..Len(db.users), industry_id \in Industries \cup {3} :
        /\ last' = [op |-> "industry_data", user |-> user, industry_id |-> industry_id,
                    response |-> IndustryDataView(db, user, industry_id)]
        /\ UNCHANGED <<db, http>>

NextView == StoreRecord \/ ViewIndustryData

SpecView == InitView /\ [][NextView]_vars

\* C25: the industry data view answers with data only to a superuser or to a
\* user with role 'owner' whose industry id is the requested one; every other
\* user gets the forbidden response and no data; and the users, plots and
\* farms shown are only those of the requested industry.
C25_IndustryDataGuarded ==
    last.op = "industry_data" =>
        LET u == db.users[last.user]
            allowed == \/ u.is_superuser
                       \/ /\ [id |-> u.role, name |-> "owner"] \in db.roles
                          /\ u.industry # 0
                          /\ u.industry = last.industry_id
            shown == last.response.context
        IN /\ ~allowed => last.response = [status |-> "forbidden", context |-> NoContext]
           /\ last.response.status # "ok" => shown = NoContext
           /\ \A v \in shown.owners \cup shown.managers \cup shown.field_officers
                       \cup shown.farmers : db.users[v].industry = last.industry_id
           /\ \A p \in shown.plots : db.plots[p].industry = last.industry_id
           /\ \A f \in shown.farms : db.farms[f].industry = last.industry_id

\* The owner of industry 1 saw the users and the plot of industry 1 and not
\* the plot of industry 2
C25_Witness ==
    /\ last.op = "industry_data"
    /\ last.user = 2
    /\ last.response.status = "ok"
    /\ last.response.context.owners = {2}
    /\ last.response.context.farmers = {7}
    /\ \E p \in 1..Len(db.plots) : db.plots[p].industry = 2
    /\ Cardinality(last.response.context.plots) = 1

=============================================================================
